---- MODULE Spec2Model ----
(***************************************************************************)
(* Model of pella_checkin.py: MultiAccountManager.run_all driving one      *)
(* PellaAutoRenew per account (constructor, run, login, get_server_url,    *)
(* renew_server), with the browser driver as a nondeterministic            *)
(* environment.                                                            *)
(*                                                                         *)
(* Durations: the source keeps total_days_float, a number of days.  The    *)
(* model keeps the same quantity in minutes (total_days_float * 1440), so  *)
(* days + hours/24 + minutes/1440 becomes days*1440 + hours*60 + minutes   *)
(* and the sentinel -1.0 becomes -1440.                                    *)
(***************************************************************************)
EXTENDS Integers, Sequences, FiniteSets, TLC

VARIABLES
    environ,                \* os.environ: the variables that are set
    exit_status,            \* main: argument of exit(), -1 while running
    accounts,               \* MultiAccountManager.accounts
    i,                      \* run_all: loop index (enumerate from 1)
    results,                \* run_all: results
    success,                \* run_all: success
    result,                 \* run_all: result
    overall,                \* run_all: first component of the return value
    delays,                 \* run_all: number of inter-account sleeps done
    summary,                \* send_notification: the message it built
    pc,                     \* position of the single thread of control
    exc,                    \* exception in flight (its text), or "None"
    ret,                    \* return value of PellaAutoRenew.run
    driver,                 \* PellaAutoRenew.driver: "None", "live", "quit"
    server_url,             \* PellaAutoRenew.server_url
    login_state,            \* login: the stage the flow has reached
    initial_expiry_details, \* PellaAutoRenew.initial_expiry_details
    initial_expiry_value,   \* PellaAutoRenew.initial_expiry_value (minutes)
    renewed_count,          \* renew_server: renewed_count
    attempt,                \* renew_server: ad-page attempts made
    continue_clicked,       \* renew_server: continue_clicked
    final_expiry_value,     \* renew_server: final_expiry_value (minutes)
    disabled_buttons,       \* renew_server: disabled_buttons is non-empty
    hint,                   \* renew_server: page_source has the 24-hour hint
    live,                   \* browser: accounts whose browser process runs
    tabs,                   \* browser: number of open secondary tabs
    focus,                  \* browser: window the driver is switched to
    avail,                  \* remote site: renewal links the page offers
    steps,                  \* history: milestones of this account's run
    raised,                 \* history: this account's processing raised
    hist,                   \* history: one record per processed account
    page_source,            \* extract_expiry_days: its argument
    parsed,                 \* extract_expiry_days: its return value
    selectors,              \* find_element_with_multiple_selectors: chain
    tried,                  \* browser: the candidates queried, in order
    element,                \* find_element_with_multiple_selectors: result
    remote,                 \* remote site: what a reload does to used links
    offered,                \* history: links offered at the first page load
    iterations,             \* history: links this account has opened
    ad_clicks,              \* history: Continue clicks made on this ad page
    url_wait,               \* browser: how the wait for HOME_URL ends
    current_url,            \* browser: driver.current_url after the wait
    error_element,          \* browser: what the error-message chain finds
    login_ret,              \* login step 5: what it returns or raises
    enabled_after,          \* browser: polls until the button is enabled
    click_raises,           \* browser: which click strategies would raise
    elapsed,                \* login step 4: elapsed, in wait intervals
    clicks,                 \* history: the click strategies attempted
    click_success           \* login step 4: click_success

vars == <<environ, exit_status, summary, accounts, i, results, success,
          result, overall, delays, pc, exc,
          ret, driver, server_url, login_state, initial_expiry_details,
          initial_expiry_value, renewed_count, attempt, continue_clicked,
          final_expiry_value, disabled_buttons, hint, live, tabs, focus,
          avail, steps, raised, hist, page_source, parsed, selectors, tried,
          element, remote, offered, iterations, ad_clicks, url_wait,
          current_url, error_element, login_ret, enabled_after, click_raises,
          elapsed, clicks, click_success>>

----------------------------------------------------------------------------
(* Bounds of the model *)

MaxAccounts == 2
MaxActions == 2
MaxPhrases == 2
MaxSelectors == 4
MaxValueLen == 3
MaxResults == 2
MaxIterations == 3

(* Program constants *)

UNPARSED == -1440
max_attempts == 3

----------------------------------------------------------------------------
(* Strings are sequences of one-character strings *)

\* str.strip() on a string whose only whitespace is " "
strip(s) ==
    LET keep == {k \in 1..Len(s) : s[k] # " "}
    IN  IF keep = {} THEN <<>>
        ELSE SubSeq(s, CHOOSE k \in keep : \A j \in keep : k <= j,
                       CHOOSE k \in keep : \A j \in keep : k >= j)

\* the position of the first character of s that is in seps, 0 if none
find(s, seps) ==
    LET hits == {k \in 1..Len(s) : s[k] \in seps}
    IN  IF hits = {} THEN 0 ELSE CHOOSE k \in hits : \A j \in hits : k <= j

\* re.split(r'[<seps>]', s): the pieces between all the separators
RECURSIVE split(_, _)
split(s, seps) ==
    LET k == find(s, seps)
    IN  IF k = 0 THEN <<s>>
        ELSE <<SubSeq(s, 1, k - 1)>> \o split(SubSeq(s, k + 1, Len(s)), seps)

\* s.split(sep, 1) for an s that contains sep
split_once(s, sep) ==
    LET k == find(s, {sep})
    IN  <<SubSeq(s, 1, k - 1), SubSeq(s, k + 1, Len(s))>>

\* sep.join(pieces)
RECURSIVE join(_, _)
join(pieces, sep) ==
    IF pieces = <<>> THEN <<>>
    ELSE IF Len(pieces) = 1 THEN pieces[1]
         ELSE pieces[1] \o <<sep>> \o join(Tail(pieces), sep)

\* os.getenv(name, default)
getenv(env, name, default) ==
    IF name \in DOMAIN env THEN env[name] ELSE default

----------------------------------------------------------------------------
(* MultiAccountManager.load_accounts *)

Credential(email, password) == [email |-> email, password |-> password]

\* fault injection: only the identity is required
UsableIfIdentity(email, password) == email # <<>>

\* `if email and password`
Usable(email, password) == email # <<>> /\ password # <<>>

\* the loop over account_pairs: the pairs with a ':' and two usable halves
RECURSIVE PairsToAccounts(_)
PairsToAccounts(pairs) ==
    IF pairs = <<>> THEN <<>>
    ELSE LET pair == Head(pairs)
             halves == split_once(pair, ":")
             email == strip(halves[1])
             password == strip(halves[2])
         IN  (IF ":" \in {pair[k] : k \in 1..Len(pair)}
                 /\ Usable(email, password)
              THEN <<Credential(email, password)>>
              ELSE <<>>)
             \o PairsToAccounts(Tail(pairs))

\* [pair.strip() for pair in pieces if pair.strip()]
RECURSIVE StrippedNonEmpty(_)
StrippedNonEmpty(pieces) ==
    IF pieces = <<>> THEN <<>>
    ELSE (IF strip(Head(pieces)) # <<>> THEN <<strip(Head(pieces))>>
          ELSE <<>>)
         \o StrippedNonEmpty(Tail(pieces))

\* the accounts returned, or raised = TRUE for the ValueError
load_accounts(env) ==
    LET accounts_str ==
            strip(getenv(env, "PELLA_ACCOUNTS",
                         getenv(env, "LEAFLOW_ACCOUNTS", <<>>)))
        multi ==
            PairsToAccounts(StrippedNonEmpty(split(accounts_str, {";", ","})))
        single_email ==
            strip(getenv(env, "PELLA_EMAIL",
                         getenv(env, "LEAFLOW_EMAIL", <<>>)))
        single_password ==
            strip(getenv(env, "PELLA_PASSWORD",
                         getenv(env, "LEAFLOW_PASSWORD", <<>>)))
    IN  IF accounts_str # <<>> /\ multi # <<>>
        THEN [raised |-> FALSE, accounts |-> multi]
        ELSE IF Usable(single_email, single_password)
             THEN [raised |-> FALSE,
                   accounts |-> <<Credential(single_email, single_password)>>]
             ELSE [raised |-> TRUE, accounts |-> <<>>]

\* the credentials of the batches this model runs
Roster ==
    << Credential(<<"a", "l", "i", "c", "e", "@", "x", ".", "i", "o">>,
                  <<"p", "1">>),
       Credential(<<"b", "o", "@", "y", ".", "o", "r", "g">>, <<"p", "2">>),
       Credential(<<"c", "a", "r", "o", "l", "@", "z", ".", "n", "e", "t">>,
                  <<"p", "3">>),
       Credential(<<"d", "a", "v", "e", "@", "x", ".", "i", "o">>,
                  <<"p", "4">>) >>

\* "email:password" of each credential, joined with ","
RECURSIVE Pairs(_)
Pairs(creds) ==
    IF creds = <<>> THEN <<>>
    ELSE <<Head(creds).email \o <<":">> \o Head(creds).password>>
         \o Pairs(Tail(creds))

\* an environment that configures the first n credentials of the roster
RosterEnviron(n) ==
    [name \in {"PELLA_ACCOUNTS", "TG_BOT_TOKEN", "TG_CHAT_ID"} |->
        IF name = "PELLA_ACCOUNTS"
        THEN join(Pairs(SubSeq(Roster, 1, n)), ",")
        ELSE <<"t">>]

----------------------------------------------------------------------------
(* Page text: a sequence of phrases, each the surface form the regular     *)
(* expressions of extract_expiry_days look for.                            *)
(*   YourServerDHM : "Your server expires in <d>D <h>H <m>M"               *)
(*   ExpiresHM     : "Expires in <h>H <m>M"                                *)
(*   ExpiringHM    : "expiring in <h> Hours <m> Minutes"                   *)
(*   ExpiresDHM    : "Expires in <d>D <h>H <m>M"                           *)
(*   ExpiresD      : "expires in <d>D"                                     *)

Phrase(form, d, h, m) == [form |-> form, d |-> d, h |-> h, m |-> m]

\* which surface forms each of the five regular expressions matches
FamilyForms(fam) ==
    CASE fam = 1 -> {"YourServerDHM"}
      [] fam = 2 -> {"ExpiresHM"}
      [] fam = 3 -> {"ExpiringHM"}
      [] fam = 4 -> {"ExpiresDHM", "YourServerDHM"}
      [] fam = 5 -> {"ExpiresD", "ExpiresDHM", "YourServerDHM"}

\* re.search: the leftmost phrase of the text the family's pattern matches
FirstMatch(fam, text) ==
    LET hits == {k \in 1..Len(text) : text[k].form \in FamilyForms(fam)}
    IN  IF hits = {} THEN 0
        ELSE CHOOSE k \in hits : \A j \in hits : k <= j

DetailPart(n, unit) == [n |-> n, unit |-> unit]

DetailedString(c) ==
    LET parts ==
            (IF c.d > 0 THEN <<DetailPart(c.d, "day")>> ELSE <<>>)
            \o (IF c.h > 0 THEN <<DetailPart(c.h, "hour")>> ELSE <<>>)
            \o (IF c.m > 0 THEN <<DetailPart(c.m, "minute")>> ELSE <<>>)
    IN  IF parts # <<>> THEN parts ELSE <<DetailPart(0, "minute")>>

CANNOT_EXTRACT == <<DetailPart(0, "cannot extract")>>
NOT_AVAILABLE == <<DetailPart(0, "N/A")>>

\* days_int, hours_int, minutes_int = 0, 0, 0 and found = False
NoMatchYet == [d |-> 0, h |-> 0, m |-> 0, found |-> FALSE]

\* fault injection: the `if not found` guard is missing
TryFamilyUnguarded(fam, text, st) ==
    LET k == FirstMatch(fam, text)
    IN  IF k = 0 THEN st
        ELSE [d |-> IF fam \in {1, 4, 5} THEN text[k].d ELSE st.d,
              h |-> IF fam \in {1, 2, 3, 4} THEN text[k].h ELSE st.h,
              m |-> IF fam \in {1, 2, 3, 4} THEN text[k].m ELSE st.m,
              found |-> TRUE]

\* `if not found: match = re.search(...); if match: <locals> = groups`
TryFamily(fam, text, st) ==
    LET k == FirstMatch(fam, text)
    IN  IF st.found \/ k = 0 THEN st
        ELSE [d |-> IF fam \in {1, 4, 5} THEN text[k].d ELSE st.d,
              h |-> IF fam \in {1, 2, 3, 4} THEN text[k].h ELSE st.h,
              m |-> IF fam \in {1, 2, 3, 4} THEN text[k].m ELSE st.m,
              found |-> TRUE]

\* fault injection: the hours-and-minutes pattern is tried first
FamilyOrderHoursFirst == <<2, 1, 3, 4, 5>>

\* the order in which the body tries its five patterns
FamilyOrder == <<1, 2, 3, 4, 5>>

RECURSIVE TryFamilies(_, _, _)
TryFamilies(order, text, st) ==
    IF order = <<>> THEN st
    ELSE TryFamilies(Tail(order), text, TryFamily(Head(order), text, st))

\* days + hours/24 + minutes/(24*60), in minutes
TotalMinutes(c) == c.d * 1440 + c.h * 60 + c.m

\* fault injection: `if total > 0` in place of `if found`
ReturnedIfPositive(st) ==
    IF TotalMinutes(st) > 0
    THEN [details |-> DetailedString(st), value |-> TotalMinutes(st)]
    ELSE [details |-> CANNOT_EXTRACT, value |-> UNPARSED]

\* `if found:` the detailed string and the total, else the sentinel pair
Returned(st) ==
    IF st.found
    THEN [details |-> DetailedString(st), value |-> TotalMinutes(st)]
    ELSE [details |-> CANNOT_EXTRACT, value |-> UNPARSED]

extract_expiry_days(text) ==
    Returned(TryFamilies(FamilyOrder, text, NoMatchYet))

\* the detail pages the remote site serves in this model
PageTexts ==
    { <<>>,
      <<Phrase("ExpiresHM", 0, 30, 3)>>,
      <<Phrase("YourServerDHM", 5, 0, 0)>>,
      <<Phrase("ExpiresDHM", 7, 12, 0)>> }

----------------------------------------------------------------------------
(* Messages.  kind is the fixed text, cause the text of the exception it   *)
(* embeds, details the expiry details it quotes, added the (days, hours,   *)
(* minutes) it reports.                                                    *)

Msg(kind, cause, details, added) ==
    [kind |-> kind, cause |-> cause, details |-> details, added |-> added]

Plain(kind) == Msg(kind, "None", <<>>, <<>>)

NOT_RUN == Plain("not run")

\* fault injection: the disabled buttons are tested before the hint
NothingToDoDisabledFirst(has_hint, has_disabled) ==
    IF has_disabled
    THEN Plain("no clickable renew button, maybe renewed today")
    ELSE IF has_hint
         THEN Plain("links not refreshed yet, wait 24 hours")
         ELSE Plain("no renew button at all")

\* renew_server: the three results when no renewal link was ever found
NothingToDo(has_hint, has_disabled) ==
    IF has_hint THEN Plain("links not refreshed yet, wait 24 hours")
    ELSE IF has_disabled
         THEN Plain("no clickable renew button, maybe renewed today")
         ELSE Plain("no renew button at all")

\* fault injection: int() in place of round()
Truncate(ms) == ms \div 1000

\* round(days_added * 24 * 3600): ms is the float product in milliseconds
Round(ms) == (ms + 500) \div 1000

\* renew_server: float rounding error of days_added * 24 * 3600, in
\* milliseconds; it is far below half a second for any duration
FloatErr == {-1, 0, 1}

AddedParts(final, initial, err) ==
    LET days_added == final - initial
        added_seconds == Round(days_added * 60 * 1000 + err)
        added_days == added_seconds \div (24 * 3600)
        added_hours == (added_seconds % (24 * 3600)) \div 3600
        added_minutes == (added_seconds % 3600) \div 60
    IN  <<added_days, added_hours, added_minutes>>

\* fault injection: `>=` in place of `>` in the first comparison
ReconcileGreaterOrEqual(final, initial, err) ==
    IF final.value >= initial.value
    THEN Msg("renewed", "None", <<initial.details, final.details>>,
             AddedParts(final.value, initial.value, err))
    ELSE Plain("completed but days went down")

\* renew_server: the result after at least one renewal link was processed
Reconcile(final, initial, err) ==
    IF final.value > initial.value
    THEN Msg("renewed", "None", <<initial.details, final.details>>,
             AddedParts(final.value, initial.value, err))
    ELSE IF final.value = initial.value
         THEN Msg("completed but days did not increase", "None",
                  <<final.details>>, <<>>)
         ELSE Plain("completed but days went down")

----------------------------------------------------------------------------
(* MultiAccountManager.send_notification.  The two substrings it looks     *)
(* for are kept character by character, one string per Chinese character.  *)

RENEWED_MARK == <<"xu", "qi", "cheng", "gong">>
NOT_CLICKABLE_MARK == <<"wei", "zhao", "dao", "ke", "dian", "ji">>

\* `pattern in text`
contains(text, pattern) ==
    \E k \in 1..(Len(text) - Len(pattern) + 1) :
        SubSeq(text, k, k + Len(pattern) - 1) = pattern

\* text[:n]
take(text, n) == SubSeq(text, 1, IF Len(text) < n THEN Len(text) ELSE n)

\* str(message): the fixed text of each kind, then what it embeds; a text
\* without one of the two marks is a single string here
FixedText(kind) ==
    CASE kind = "renewed" -> <<"ok", " ">> \o RENEWED_MARK \o <<"!">>
      [] kind = "no clickable renew button, maybe renewed today" ->
            <<"wait", " ">> \o NOT_CLICKABLE_MARK \o <<"...">>
      [] OTHER -> <<kind>>

\* str(e) of a driver exception has the stack trace on further lines
CauseText(cause) ==
    IF cause = "driver error" THEN <<cause, "\n", "Stacktrace">>
    ELSE <<cause>>

Rendered(msg) ==
    FixedText(msg.kind)
    \o (IF msg.cause # "None" THEN <<":", " ">> \o CauseText(msg.cause)
        ELSE <<>>)
    \o (IF msg.details # <<>> THEN <<" ", ToString(msg.details)>> ELSE <<>>)
    \o (IF msg.added # <<>> THEN <<" ", ToString(msg.added)>> ELSE <<>>)

\* the results with each message as the string it is in the source
AsText(rs) ==
    [k \in 1..Len(rs) |->
        [email |-> rs[k].email, success |-> rs[k].success,
         result |-> Rendered(rs[k].result)]]

\* fault injection: the local part is shown in full
MaskedLocalWhole(local_part) == local_part

\* local_part[:3]
MaskedLocal(local_part) == take(local_part, 3)

masked_email(email) ==
    IF "@" \in {email[k] : k \in 1..Len(email)}
    THEN LET parts == split_once(email, "@")
         IN  MaskedLocal(parts[1]) \o <<"*", "*", "*", "@">> \o parts[2]
    ELSE take(email, 3) \o <<"*", "*", "*">>

\* result.split('\n')[0][:100]
short_result(text) == take(split(text, {"\n"})[1], 100)

status(r) ==
    IF r.success /\ contains(r.result, RENEWED_MARK) THEN "renewed"
    ELSE IF contains(r.result, NOT_CLICKABLE_MARK) THEN "already done"
         ELSE "failed"

IsRenewed(r) == r.success /\ contains(r.result, RENEWED_MARK)
IsAlreadyDone(r) == r.success /\ contains(r.result, NOT_CLICKABLE_MARK)
IsFailure(r) == ~r.success

\* sum(1 for ... in results if ...)
notified_success_count(rs) ==
    Cardinality({k \in 1..Len(rs) : IsRenewed(rs[k])})
notified_already_done_count(rs) ==
    Cardinality({k \in 1..Len(rs) : IsAlreadyDone(rs[k])})
notified_failure_count(rs) ==
    Cardinality({k \in 1..Len(rs) : IsFailure(rs[k])})

\* nothing was sent: a Telegram variable is empty or unset
NOT_SENT == [sent |-> FALSE]

\* the message handed to requests.post, rs being (email, success, result)
send_notification(env, rs) ==
    IF getenv(env, "TG_BOT_TOKEN", <<>>) = <<>>
       \/ getenv(env, "TG_CHAT_ID", <<>>) = <<>>
    THEN NOT_SENT
    ELSE [sent |-> TRUE,
          total_count |-> Len(rs),
          success_count |-> notified_success_count(rs),
          already_done_count |-> notified_already_done_count(rs),
          failure_count |-> notified_failure_count(rs),
          lines |-> [k \in 1..Len(rs) |->
                       [status |-> status(rs[k]),
                        masked_email |-> masked_email(rs[k].email),
                        short_result |-> short_result(rs[k].result)]]]

----------------------------------------------------------------------------
(* The state after MultiAccountManager.__init__ *)

\* values of the per-account variables between two accounts
Idle ==
    /\ exc = "None"
    /\ ret = <<FALSE, NOT_RUN>>
    /\ driver = "None"
    /\ server_url = "None"
    /\ login_state = "NotStarted"
    /\ initial_expiry_details = NOT_AVAILABLE
    /\ initial_expiry_value = UNPARSED
    /\ renewed_count = 0
    /\ attempt = 0
    /\ continue_clicked = FALSE
    /\ final_expiry_value = UNPARSED
    /\ disabled_buttons = FALSE
    /\ hint = FALSE
    /\ tabs = 0
    /\ focus = "primary"
    /\ avail = 0
    /\ steps = {}
    /\ raised = FALSE
    /\ offered = 0
    /\ iterations = 0
    /\ ad_clicks = 0

\* the locals of run_all before its loop, no account being processed
Started ==
    /\ exit_status = -1
    /\ summary = NOT_SENT
    /\ i = 1
    /\ success = FALSE
    /\ result = NOT_RUN
    /\ overall = FALSE
    /\ delays = 0
    /\ live = {}
    /\ hist = <<>>
    /\ Idle

Constructed ==
    /\ Started
    /\ results = <<>>

\* no helper is being exercised on its own
NoParse ==
    /\ page_source = <<>>
    /\ parsed = "None"

NoFind ==
    /\ selectors = <<>>
    /\ tried = <<>>
    /\ element = 0

NoWait ==
    /\ url_wait = "None"
    /\ current_url = <<>>
    /\ error_element = "None"
    /\ login_ret = "None"

NoClick ==
    /\ enabled_after = 0
    /\ click_raises = <<>>
    /\ elapsed = 0
    /\ clicks = <<>>
    /\ click_success = FALSE

NoCall ==
    /\ NoParse
    /\ NoFind
    /\ NoWait
    /\ NoClick

\* the process at the first statement of main: nothing configured, or the
\* first n credentials of the roster
Init ==
    /\ \/ environ = <<>>
       \/ \E n \in 1..MaxAccounts : environ = RosterEnviron(n)
    /\ accounts = <<>>
    /\ pc = "main"
    /\ Constructed
    /\ NoCall
    /\ remote = "consumes"

----------------------------------------------------------------------------
(* Variable groups *)

mainVars == <<environ, exit_status>>
batchVars ==
    <<accounts, i, results, success, result, overall, delays, hist, summary>>
runnerVars ==
    <<driver, server_url, initial_expiry_details, initial_expiry_value>>
renewVars ==
    <<renewed_count, attempt, continue_clicked, final_expiry_value,
      disabled_buttons, hint>>
browserVars == <<live, tabs, focus>>
parseVars == <<page_source, parsed>>
findVars == <<selectors, tried, element>>
outsideVars == <<mainVars, parseVars, findVars>>
waitVars == <<url_wait, current_url, error_element, login_ret>>
clickVars == <<enabled_after, click_raises, elapsed, clicks, click_success>>
loopHist == <<offered, iterations, ad_clicks>>

\* raise Exception(text), caught at the handler `handler`
Raise(text, handler) ==
    /\ exc' = text
    /\ raised' = TRUE
    /\ pc' = handler

----------------------------------------------------------------------------
(* main: MultiAccountManager() *)

\* manager = MultiAccountManager(): load_accounts returns or raises
MultiAccountManager_init ==
    /\ pc = "main"
    /\ LET loaded == load_accounts(environ)
       IN  IF loaded.raised
           THEN /\ exc' = "no valid account configuration"
                /\ pc' = "main_except"
                /\ UNCHANGED accounts
           ELSE /\ accounts' = loaded.accounts
                /\ pc' = "loop"
                /\ UNCHANGED exc
    /\ UNCHANGED <<mainVars, summary, i, results, success, result, overall,
                   delays,
                   hist, ret, runnerVars, renewVars, browserVars, avail,
                   steps, raised, parseVars, findVars>>
    /\ UNCHANGED login_state
    /\ UNCHANGED <<remote, waitVars, clickVars>>
    /\ UNCHANGED loopHist

\* except ValueError: exit(1)
main_except ==
    /\ pc = "main_except"
    /\ exit_status' = 1
    /\ exc' = "None"
    /\ pc' = "exited"
    /\ UNCHANGED <<environ, batchVars, ret, runnerVars, renewVars,
                   browserVars, avail, steps, raised, parseVars, findVars>>
    /\ UNCHANGED login_state
    /\ UNCHANGED <<remote, waitVars, clickVars>>
    /\ UNCHANGED loopHist

\* fault injection: the exit status follows overall_success
ExitStatusByOverall(overall_success) == IF overall_success THEN 0 ELSE 1

\* exit(0) in both branches of `if overall_success`
ExitStatus(overall_success) == 0

\* overall_success, detailed_results = manager.run_all(), then exit
main_exit ==
    /\ pc = "done"
    /\ exit_status' = ExitStatus(overall)
    /\ pc' = "exited"
    /\ UNCHANGED <<environ, batchVars, exc, ret, runnerVars, renewVars,
                   browserVars, avail, steps, raised, parseVars, findVars>>
    /\ UNCHANGED login_state
    /\ UNCHANGED <<remote, waitVars, clickVars>>
    /\ UNCHANGED loopHist

----------------------------------------------------------------------------
(* MultiAccountManager.run_all: loop head *)

\* fault injection: the locals are set once before the loop, not per account
KeepLocals == <<success, result>>

\* success, result = False, "not run"
FreshLocals == <<FALSE, NOT_RUN>>

run_all_loop ==
    /\ pc = "loop"
    /\ IF i <= Len(accounts)
       THEN /\ success' = FreshLocals[1]
            /\ result' = FreshLocals[2]
            /\ pc' = "ctor"
       ELSE /\ pc' = "notify"
            /\ UNCHANGED <<success, result>>
    /\ UNCHANGED <<summary, accounts, i, results, overall, delays, hist, exc,
                   ret, runnerVars, renewVars, browserVars, avail, steps,
                   raised>>
    /\ UNCHANGED outsideVars
    /\ UNCHANGED login_state
    /\ UNCHANGED <<remote, waitVars, clickVars>>
    /\ UNCHANGED loopHist

----------------------------------------------------------------------------
(* PellaAutoRenew.__init__ and setup_driver *)

\* what webdriver.Chrome(...) and the execute_script after it can do
SetupOutcomes == {"ready", "Chrome raises", "execute_script raises"}

\* fault injection: `and` in place of `or`
RejectedIfBothEmpty(account) ==
    account.email = <<>> /\ account.password = <<>>

\* `if not self.email or not self.password: raise ValueError(...)`
Rejected(account) == account.email = <<>> \/ account.password = <<>>

\* os.getenv('DEBUG_MODE', '0') == '1'
debug_mode(env) == getenv(env, "DEBUG_MODE", <<"0">>) = <<"1">>

\* raised when os.makedirs of the screenshot directory fails
STORAGE_FAULT == "cannot create the screenshot directory"

\* `if self.debug_mode and not os.path.exists(self.screenshot_dir):
\* os.makedirs(self.screenshot_dir)` raises
StorageFails(env, storage) == debug_mode(env) /\ storage = "makedirs raises"

PellaAutoRenew_init ==
    /\ pc = "ctor"
    /\ initial_expiry_details' = NOT_AVAILABLE
    /\ initial_expiry_value' = UNPARSED
    /\ server_url' = "None"
    /\ IF Rejected(accounts[i])
       THEN /\ Raise("email and password must not be empty", "run_all_except")
            /\ UNCHANGED <<driver, live>>
       ELSE \E storage \in {"exists", "created", "makedirs raises"},
             o \in SetupOutcomes :
              IF StorageFails(environ, storage)
              THEN /\ Raise(STORAGE_FAULT, "run_all_except")
                   /\ UNCHANGED <<driver, live>>
              ELSE /\ driver' = IF o = "Chrome raises" THEN "None"
                                ELSE "live"
                   /\ live' = IF o = "Chrome raises" THEN live
                              ELSE live \cup {i}
                   /\ IF o = "ready"
                      THEN /\ pc' = "login"
                           /\ UNCHANGED <<exc, raised>>
                      ELSE Raise("driver initialisation failed",
                                 "run_all_except")
    /\ UNCHANGED <<batchVars, ret, renewVars, tabs, focus, avail, steps,
                   login_state>>
    /\ UNCHANGED outsideVars
    /\ UNCHANGED <<remote, waitVars, clickVars>>
    /\ UNCHANGED loopHist

----------------------------------------------------------------------------
(* PellaAutoRenew.run: login, get_server_url *)

\* login raises: every exception of login reaches the except of run
LoginFails ==
    /\ Raise("login error", "run_except")
    /\ login_state' = "Failed"

\* self.driver.get(self.LOGIN_URL), outside the five try blocks
login ==
    /\ pc = "login"
    /\ \/ /\ login_state' = "Start"
          /\ pc' = "login_email"
          /\ UNCHANGED <<exc, raised>>
       \/ LoginFails
    /\ UNCHANGED <<batchVars, ret, driver, server_url,
                   initial_expiry_details, initial_expiry_value, renewVars,
                   browserVars, avail, steps>>
    /\ UNCHANGED outsideVars
    /\ UNCHANGED <<remote, waitVars, clickVars>>
    /\ UNCHANGED loopHist

\* what the chain of a field and the typing into it can do
FieldOutcomes == {"typed", "no field", "raises"}

\* fault injection: the `if not ..._input: raise` is missing and the typing
\* into None goes unnoticed
TypedOrNoField(o) == o \in {"typed", "no field"}

\* the step reaches its end: the field was found and the value set
Typed(o) == o = "typed"

\* fault injection: the flow goes from the email straight to the password
AfterEmailToPassword == "login_password"

\* the step after step 1
AfterEmail == "login_submit_email"

\* step 1: the email field chain, `if not email_input: raise`, set value
login_email ==
    /\ pc = "login_email"
    /\ \E o \in FieldOutcomes :
         /\ steps' = steps \cup
                (IF o = "no field" THEN {"email field missing"} ELSE {})
                \cup (IF Typed(o) THEN {"email typed"} ELSE {})
         /\ IF Typed(o)
            THEN /\ login_state' = "EmailEntered"
                 /\ pc' = AfterEmail
                 /\ UNCHANGED <<exc, raised>>
            ELSE LoginFails
    /\ UNCHANGED <<batchVars, ret, driver, server_url,
                   initial_expiry_details, initial_expiry_value, renewVars,
                   browserVars, avail>>
    /\ UNCHANGED outsideVars
    /\ UNCHANGED <<remote, waitVars, clickVars>>
    /\ UNCHANGED loopHist

\* the button chain, the script click, and the wait for the URL to change
\* whose TimeoutException is only logged
SubmitEmailOutcomes ==
    {"clicked, URL changed", "clicked, URL unchanged", "no button", "raises"}

\* step 2: the first Next/Continue button
login_submit_email ==
    /\ pc = "login_submit_email"
    /\ \E o \in SubmitEmailOutcomes :
         IF o \in {"clicked, URL changed", "clicked, URL unchanged"}
         THEN /\ steps' = steps \cup {"email submit clicked"}
              /\ login_state' = "EmailSubmitted"
              /\ pc' = "login_password"
              /\ UNCHANGED <<exc, raised>>
         ELSE /\ LoginFails
              /\ UNCHANGED steps
    /\ UNCHANGED <<batchVars, ret, driver, server_url,
                   initial_expiry_details, initial_expiry_value, renewVars,
                   browserVars, avail>>
    /\ UNCHANGED outsideVars
    /\ UNCHANGED <<remote, waitVars, clickVars>>
    /\ UNCHANGED loopHist

\* step 3: the password field chain, `if not password_input: raise`, set
\* value
login_password ==
    /\ pc = "login_password"
    /\ \E o \in FieldOutcomes :
         /\ steps' = steps \cup
                (IF o = "no field" THEN {"password field missing"} ELSE {})
                \cup (IF Typed(o) THEN {"secret typed"} ELSE {})
         /\ IF Typed(o)
            THEN /\ login_state' = "PasswordEntered"
                 /\ pc' = "login_submit"
                 /\ UNCHANGED <<exc, raised>>
            ELSE LoginFails
    /\ UNCHANGED <<batchVars, ret, driver, server_url,
                   initial_expiry_details, initial_expiry_value, renewVars,
                   browserVars, avail>>
    /\ UNCHANGED outsideVars
    /\ UNCHANGED <<remote, waitVars, clickVars>>
    /\ UNCHANGED loopHist

\* the button chain, the bounded wait for is_enabled, the three clicks
SubmitOutcomes ==
    {"clicked", "no button", "all three clicks raised", "raises"}

\* step 4: the final Next/Continue button
login_submit ==
    /\ pc = "login_submit"
    /\ \E o \in SubmitOutcomes :
         IF o = "clicked"
         THEN /\ steps' = steps \cup {"login clicked"}
              /\ login_state' = "LoginSubmitted"
              /\ pc' = "login_wait"
              /\ UNCHANGED <<exc, raised>>
         ELSE /\ LoginFails
              /\ UNCHANGED steps
    /\ UNCHANGED <<batchVars, ret, driver, server_url,
                   initial_expiry_details, initial_expiry_value, renewVars,
                   browserVars, avail>>
    /\ UNCHANGED outsideVars
    /\ UNCHANGED <<remote, waitVars, clickVars>>
    /\ UNCHANGED loopHist

\* PellaAutoRenew.LOGIN_URL and PellaAutoRenew.HOME_URL
LOGIN_URL ==
    <<"h", "t", "t", "p", "s", ":", "/", "/", "w", "w", "w", ".", "p", "e",
      "l", "l", "a", ".", "a", "p", "p", "/", "l", "o", "g", "i", "n">>

HOME_URL ==
    <<"h", "t", "t", "p", "s", ":", "/", "/", "w", "w", "w", ".", "p", "e",
      "l", "l", "a", ".", "a", "p", "p", "/", "h", "o", "m", "e">>

\* the text looked for in the URL to tell the Google sign-in
GOOGLE_ACCOUNTS ==
    <<"a", "c", "c", "o", "u", "n", "t", "s", ".", "g", "o", "o", "g", "l",
      "e", ".", "c", "o", "m">>

\* the text looked for in the URL to tell the login page
LOGIN_WORD == <<"l", "o", "g", "i", "n">>

\* s.startswith(prefix)
startswith(s, prefix) ==
    /\ Len(prefix) <= Len(s)
    /\ SubSeq(s, 1, Len(prefix)) = prefix

\* how WebDriverWait(...).until(EC.url_to_be(HOME_URL)) ends: it returns,
\* raises TimeoutException, or the driver raises something else
WaitEnds == {"reached", "timeout", "raises"}

\* the URLs the browser can be on when current_url is read after the wait
Urls ==
    { LOGIN_URL,
      LOGIN_URL \o <<"#", "/", "f", "a", "c", "t", "o", "r">>,
      <<"h", "t", "t", "p", "s", ":", "/", "/">> \o GOOGLE_ACCOUNTS
         \o <<"/", "s", "i", "g", "n", "i", "n">>,
      HOME_URL,
      HOME_URL \o <<"/", "s", "e", "r", "v", "e", "r", "s">>,
      SubSeq(HOME_URL, 1, Len(HOME_URL) - 4)
         \o <<"d", "a", "s", "h", "b", "o", "a", "r", "d">>,
      SubSeq(HOME_URL, 1, Len(HOME_URL) - 4)
         \o <<"w", "e", "l", "c", "o", "m", "e", "?", "f", "r", "o", "m", "=">>
         \o LOGIN_WORD,
      SubSeq(HOME_URL, 1, Len(HOME_URL) - 4)
         \o <<"s", "s", "o", "?", "i", "d", "p", "=">> \o GOOGLE_ACCOUNTS }

ErrorElement(state, text) == [state |-> state, text |-> text]

\* what the chain of error-message candidates gives: nothing, an element
\* that is not displayed, a displayed element with its text, or a fault of
\* the driver while the element is looked for or queried
ErrorElements ==
    { ErrorElement("none", ""),
      ErrorElement("hidden", "Password is incorrect"),
      ErrorElement("visible", "Password is incorrect"),
      ErrorElement("visible", "Too many requests"),
      ErrorElement("raises", "") }

LoginReturns == [ok |-> TRUE, raised |-> <<"None">>]

LoginRaises(text) == [ok |-> FALSE, raised |-> text]

\* except TimeoutException: the error element, re-raised out of the inner
\* try only when it is the login failure, then the tests on current_url
AfterTimeout(url, err) ==
    IF err.state = "visible"
    THEN LoginRaises(<<"login failed", err.text>>)
    ELSE IF contains(url, GOOGLE_ACCOUNTS)
         THEN LoginRaises(<<"Google OAuth login is not supported">>)
         ELSE IF contains(url, LOGIN_WORD)
              THEN LoginRaises(<<"login failed, still on the login page">>)
              ELSE LoginReturns

\* step 5 of login: what it returns or raises
login_wait_result(end, url, err) ==
    CASE end = "raises" -> LoginRaises(<<"driver error">>)
      [] end = "reached" ->
            IF startswith(url, HOME_URL) THEN LoginReturns
            ELSE LoginRaises(<<"not on HOME after login">>)
      [] end = "timeout" -> AfterTimeout(url, err)

\* step 5: the wait for HOME_URL and what follows its timeout
login_wait ==
    /\ pc = "login_wait"
    /\ \E end \in WaitEnds, url \in Urls, err \in ErrorElements :
         IF login_wait_result(end, url, err).ok
         THEN /\ steps' = steps \cup {"login"}
              /\ login_state' = "LoggedIn"
              /\ pc' = "get_server_url"
              /\ UNCHANGED <<exc, raised>>
         ELSE /\ LoginFails
              /\ UNCHANGED steps
    /\ UNCHANGED <<batchVars, ret, driver, server_url,
                   initial_expiry_details, initial_expiry_value, renewVars,
                   browserVars, avail>>
    /\ UNCHANGED outsideVars
    /\ UNCHANGED <<remote, waitVars, clickVars>>
    /\ UNCHANGED loopHist

get_server_url ==
    /\ pc = "get_server_url"
    /\ \E found \in BOOLEAN :
         IF found
         THEN /\ server_url' = "https://www.pella.app/server/1"
              /\ steps' = steps \cup {"server_url"}
              /\ pc' = "renew_server"
              /\ UNCHANGED <<exc, raised>>
         ELSE /\ Raise("cannot get the server URL", "run_except")
              /\ UNCHANGED <<server_url, steps>>
    /\ UNCHANGED <<batchVars, ret, driver, initial_expiry_details,
                   initial_expiry_value, renewVars, browserVars, avail>>
    /\ UNCHANGED outsideVars
    /\ UNCHANGED login_state
    /\ UNCHANGED <<remote, waitVars, clickVars>>
    /\ UNCHANGED loopHist

----------------------------------------------------------------------------
(* PellaAutoRenew.renew_server *)

\* fault injection: the check of the initial snapshot is missing
InitialUnparsedIgnored(value) == FALSE

\* `if self.initial_expiry_value == -1.0`
InitialUnparsed(value) == value = UNPARSED

\* entry: the server_url check, the first page load and the initial snapshot
renew_server_start ==
    /\ pc = "renew_server"
    /\ steps' = steps \cup {"renew_server"}
    /\ IF server_url = "None"
       THEN /\ Raise("server URL missing", "run_except")
            /\ UNCHANGED <<initial_expiry_details, initial_expiry_value,
                           renewed_count, avail>>
       ELSE \/ /\ Raise("driver error", "run_except")      \* driver.get raises
               /\ UNCHANGED <<initial_expiry_details, initial_expiry_value,
                              renewed_count, avail>>
            \/ \E text \in PageTexts, n \in 0..MaxActions :
                 LET snap == extract_expiry_days(text)
                 IN  /\ initial_expiry_details' = snap.details
                     /\ initial_expiry_value' = snap.value
                     /\ IF InitialUnparsed(snap.value)
                        THEN /\ Raise("cannot extract the initial expiry",
                                      "run_except")
                             /\ UNCHANGED <<renewed_count, avail>>
                        ELSE /\ renewed_count' = 0
                             /\ avail' = n
                             /\ pc' = "search"
                             /\ UNCHANGED <<exc, raised>>
    /\ offered' = avail'
    /\ UNCHANGED <<iterations, ad_clicks>>
    /\ UNCHANGED <<batchVars, ret, driver, server_url, attempt,
                   continue_clicked, final_expiry_value, disabled_buttons,
                   hint, browserVars>>
    /\ UNCHANGED outsideVars
    /\ UNCHANGED login_state
    /\ UNCHANGED <<remote, waitVars, clickVars>>

\* fault injection: the loop also ends once as many links were processed
\* as the first page offered
LoopEndsWhenAllTaken(found) == found = 0 \/ renewed_count >= offered

\* `if not renew_buttons: break`, the only exit of `while True`
LoopEnds(found) == found = 0

\* loop head: the selectors are tried; no button found ends the loop
renew_search ==
    /\ pc = "search"
    /\ IF LoopEnds(avail)
       THEN /\ pc' = "reconcile"
            /\ UNCHANGED <<exc, raised>>
       ELSE \/ /\ pc' = "open"
               /\ UNCHANGED <<exc, raised>>
            \/ Raise("renew flow error", "run_except") \* get_attribute raises
    /\ UNCHANGED <<batchVars, ret, runnerVars, renewVars, browserVars, avail,
                   steps>>
    /\ UNCHANGED outsideVars
    /\ UNCHANGED login_state
    /\ UNCHANGED <<remote, waitVars, clickVars>>
    /\ UNCHANGED loopHist

\* window.open(renew_url), then the switch to the last window handle
renew_open_tab ==
    /\ pc = "open"
    /\ \/ /\ Raise("renew flow error", "run_except")   \* execute_script raises
          /\ UNCHANGED <<tabs, focus, attempt, continue_clicked, iterations,
                         ad_clicks>>
       \/ \E opened \in BOOLEAN :
            LET handles == tabs + (IF opened THEN 1 ELSE 0)
            IN  /\ tabs' = handles
                /\ IF handles > 0
                   THEN \/ /\ focus' = "secondary"
                           /\ attempt' = 0
                           /\ continue_clicked' = FALSE
                           /\ ad_clicks' = 0
                           /\ iterations' = iterations + 1
                           /\ pc' = "ad_gate"
                           /\ UNCHANGED <<exc, raised>>
                        \/ /\ Raise("renew flow error", "run_except")
                           /\ UNCHANGED <<focus, attempt, continue_clicked,
                                          ad_clicks, iterations>>
                   ELSE /\ pc' = "reload"
                        /\ iterations' = iterations + 1
                        /\ UNCHANGED <<focus, attempt, continue_clicked,
                                       ad_clicks, exc, raised>>
    /\ UNCHANGED offered
    /\ UNCHANGED <<batchVars, ret, runnerVars, renewed_count,
                   final_expiry_value, disabled_buttons, hint, live, avail,
                   steps>>
    /\ UNCHANGED outsideVars
    /\ UNCHANGED login_state
    /\ UNCHANGED <<remote, waitVars, clickVars>>

\* what one pass over the Continue candidates can do: the first clickable
\* and displayed candidate is clicked, none is, or the pass raises
GateOutcomes == {"clicked", "nothing clickable", "raises"}

\* the for loop over the attempts is over: break after a click, or the
\* range is exhausted
GateLeft(clicked, n) == clicked \/ n = max_attempts

\* one pass of `for attempt in range(max_attempts)` on the ad page; the
\* except clause of the pass only logs
renew_ad_gate_attempt ==
    /\ pc = "ad_gate"
    /\ ~GateLeft(continue_clicked, attempt)
    /\ attempt' = attempt + 1
    /\ \E o \in GateOutcomes :
         /\ continue_clicked' = (continue_clicked \/ o = "clicked")
         /\ ad_clicks' = ad_clicks + (IF o = "clicked" THEN 1 ELSE 0)
    /\ UNCHANGED <<offered, iterations>>
    /\ UNCHANGED <<batchVars, pc, exc, ret, runnerVars, renewed_count,
                   final_expiry_value, disabled_buttons, hint, browserVars,
                   avail, steps, raised>>
    /\ UNCHANGED outsideVars
    /\ UNCHANGED login_state
    /\ UNCHANGED <<remote, waitVars, clickVars>>

\* driver.close() raised or not, and whether the tab is gone afterwards
CloseOutcomes == {"closed", "raises, tab gone", "raises, tab still open"}

\* fault injection: the switch back sits inside the try, after close()
FocusAfterCloseIfClosed(close) == IF close = "closed" THEN "primary" ELSE focus

\* the window the driver is switched to after the close was tried
FocusAfterClose(close) == "primary"

\* the settle wait, driver.close() in try/except, switch_to.window(original)
renew_close_tab ==
    /\ pc = "ad_gate"
    /\ GateLeft(continue_clicked, attempt)
    /\ \E close \in CloseOutcomes :
         /\ tabs' = IF close = "raises, tab still open" THEN tabs ELSE tabs - 1
         /\ \/ /\ focus' = FocusAfterClose(close)
               /\ pc' = "reload"
               /\ UNCHANGED <<exc, raised>>
            \/ /\ Raise("renew flow error", "run_except")  \* switch_to raises
               /\ UNCHANGED focus
    /\ UNCHANGED <<batchVars, ret, runnerVars, renewVars, live, avail, steps>>
    /\ UNCHANGED outsideVars
    /\ UNCHANGED login_state
    /\ UNCHANGED <<remote, waitVars, clickVars>>
    /\ UNCHANGED loopHist

\* the links the reloaded page offers when it offered n before the link
\* was used: the used link is gone, or the remote site still shows it
StillOffered(n) == IF remote = "consumes" THEN n - 1 ELSE n

\* fault injection: the count is not advanced
CountAfterUnchanged(n) == n

\* renewed_count += 1
CountAfter(n) == n + 1

\* renewed_count += 1 and the reload of the detail page
renew_reload ==
    /\ pc = "reload"
    /\ renewed_count < MaxIterations
    /\ renewed_count' = CountAfter(renewed_count)
    /\ \/ /\ avail' = StillOffered(avail)
          /\ pc' = "search"
          /\ UNCHANGED <<exc, raised>>
       \/ /\ Raise("renew flow error", "run_except")       \* driver.get raises
          /\ UNCHANGED avail
    /\ UNCHANGED <<batchVars, ret, runnerVars, attempt, continue_clicked,
                   final_expiry_value, disabled_buttons, hint, browserVars,
                   steps>>
    /\ UNCHANGED outsideVars
    /\ UNCHANGED login_state
    /\ UNCHANGED <<remote, waitVars, clickVars>>
    /\ UNCHANGED loopHist

\* after the loop: the result, returned through run as (True, result)
renew_reconcile ==
    /\ pc = "reconcile"
    /\ \/ /\ Raise("renew flow error", "run_except")  \* a driver call raises
          /\ UNCHANGED <<ret, final_expiry_value, disabled_buttons, hint,
                         steps>>
       \/ /\ renewed_count = 0
          /\ \E h \in BOOLEAN, d \in BOOLEAN :
               /\ hint' = h
               /\ disabled_buttons' = d
               /\ ret' = <<TRUE, NothingToDo(h, d)>>
          /\ steps' = steps \cup {"renew_server returned"}
          /\ pc' = "run_finally"
          /\ UNCHANGED <<final_expiry_value, exc, raised>>
       \/ /\ renewed_count > 0
          /\ \E text \in PageTexts, err \in FloatErr :
               LET final == extract_expiry_days(text)
                   initial == [details |-> initial_expiry_details,
                               value |-> initial_expiry_value]
               IN  /\ final_expiry_value' = final.value
                   /\ ret' = <<TRUE, Reconcile(final, initial, err)>>
          /\ steps' = steps \cup {"renew_server returned", "reconciled"}
          /\ pc' = "run_finally"
          /\ UNCHANGED <<disabled_buttons, hint, exc, raised>>
    /\ UNCHANGED <<batchVars, runnerVars, renewed_count, attempt,
                   continue_clicked, browserVars, avail>>
    /\ UNCHANGED outsideVars
    /\ UNCHANGED login_state
    /\ UNCHANGED <<remote, waitVars, clickVars>>
    /\ UNCHANGED loopHist

----------------------------------------------------------------------------
(* PellaAutoRenew.run: except and finally *)

\* fault injection: an except clause that misses the renewal's exceptions
run_catches_some(e) == e # "renew flow error"

\* `except Exception as e` of run: the exceptions it catches
run_catches(e) == TRUE

\* return False, "auto renew failed: " + str(e)
run_except ==
    /\ pc = "run_except"
    /\ IF run_catches(exc)
       THEN /\ ret' = <<FALSE, Msg("auto renew failed", exc, <<>>, <<>>)>>
            /\ exc' = "None"
       ELSE UNCHANGED <<ret, exc>>
    /\ pc' = "run_finally"
    /\ UNCHANGED <<batchVars, runnerVars, renewVars, browserVars, avail,
                   steps, raised>>
    /\ UNCHANGED outsideVars
    /\ UNCHANGED login_state
    /\ UNCHANGED <<remote, waitVars, clickVars>>
    /\ UNCHANGED loopHist

\* fault injection: quit() only on the path that returns (True, result)
LiveAfterRunOnSuccess == IF ret[1] THEN live \ {i} ELSE live

\* finally: `if self.driver: self.driver.quit()`; which browsers still run
LiveAfterRun == IF driver # "None" THEN live \ {i} ELSE live

run_finally ==
    /\ pc = "run_finally"
    /\ live' = LiveAfterRun
    /\ driver' = IF i \in live' THEN driver ELSE "quit"
    /\ tabs' = IF i \in live' THEN tabs ELSE 0
    /\ focus' = IF i \in live' THEN focus ELSE "primary"
    /\ pc' = IF exc = "None" THEN "run_returned" ELSE "run_all_except"
    /\ UNCHANGED <<batchVars, exc, ret, server_url, initial_expiry_details,
                   initial_expiry_value, renewVars, avail, steps, raised>>
    /\ UNCHANGED outsideVars
    /\ UNCHANGED login_state
    /\ UNCHANGED <<remote, waitVars, clickVars>>
    /\ UNCHANGED loopHist

----------------------------------------------------------------------------
(* MultiAccountManager.run_all: after run, except, append, return *)

\* success, result = auto_renew.run(), then the sleep between accounts
run_all_after_run ==
    /\ pc = "run_returned"
    /\ success' = ret[1]
    /\ result' = ret[2]
    /\ delays' = IF i < Len(accounts) THEN delays + 1 ELSE delays
    /\ pc' = "append"
    /\ UNCHANGED <<summary, accounts, i, results, overall, hist, exc, ret,
                   runnerVars, renewVars, browserVars, avail, steps, raised>>
    /\ UNCHANGED outsideVars
    /\ UNCHANGED login_state
    /\ UNCHANGED <<remote, waitVars, clickVars>>
    /\ UNCHANGED loopHist

\* except Exception as e: result = "account exception: " + str(e)
run_all_except ==
    /\ pc = "run_all_except"
    /\ result' = Msg("account exception", exc, <<>>, <<>>)
    /\ exc' = "None"
    /\ pc' = "append"
    /\ UNCHANGED <<summary, accounts, i, results, success, overall, delays,
                   hist, ret, runnerVars, renewVars, browserVars, avail,
                   steps, raised>>
    /\ UNCHANGED outsideVars
    /\ UNCHANGED login_state
    /\ UNCHANGED <<remote, waitVars, clickVars>>
    /\ UNCHANGED loopHist

Outcome(email, ok, message) ==
    [email |-> email, success |-> ok, result |-> message]

\* what the history keeps of the account just processed
Observed ==
    [raised |-> raised,
     anomaly |-> /\ "reconciled" \in steps
                 /\ final_expiry_value # UNPARSED
                 /\ final_expiry_value < initial_expiry_value]

\* results.append(...); the runner object and its locals go out of scope
run_all_append ==
    /\ pc = "append"
    /\ results' = Append(results, Outcome(accounts[i].email, success, result))
    /\ hist' = Append(hist, Observed)
    /\ i' = i + 1
    /\ pc' = "loop"
    /\ exc' = "None"
    /\ ret' = <<FALSE, NOT_RUN>>
    /\ driver' = "None"
    /\ server_url' = "None"
    /\ login_state' = "NotStarted"
    /\ initial_expiry_details' = NOT_AVAILABLE
    /\ initial_expiry_value' = UNPARSED
    /\ renewed_count' = 0
    /\ attempt' = 0
    /\ continue_clicked' = FALSE
    /\ final_expiry_value' = UNPARSED
    /\ disabled_buttons' = FALSE
    /\ hint' = FALSE
    /\ tabs' = 0
    /\ focus' = "primary"
    /\ avail' = 0
    /\ steps' = {}
    /\ raised' = FALSE
    /\ offered' = 0
    /\ iterations' = 0
    /\ ad_clicks' = 0
    /\ UNCHANGED <<accounts, success, result, overall, delays, live>>
    /\ UNCHANGED summary
    /\ UNCHANGED outsideVars
    /\ UNCHANGED <<remote, waitVars, clickVars>>

success_count(rs) == Cardinality({k \in 1..Len(rs) : rs[k].success})

\* send_notification, then return success_count == len(self.accounts), results
run_all_finish ==
    /\ pc = "notify"
    /\ summary' = send_notification(environ, AsText(results))
    /\ overall' = (success_count(results) = Len(accounts))
    /\ pc' = "done"
    /\ UNCHANGED <<accounts, i, results, success, result, delays, hist, exc,
                   ret, runnerVars, renewVars, browserVars, avail, steps,
                   raised>>
    /\ UNCHANGED outsideVars
    /\ UNCHANGED login_state
    /\ UNCHANGED <<remote, waitVars, clickVars>>
    /\ UNCHANGED loopHist

----------------------------------------------------------------------------

\* MultiAccountManager.run_all and what it calls
RunAll ==
    \/ run_all_loop
    \/ PellaAutoRenew_init
    \/ login
    \/ login_email
    \/ login_submit_email
    \/ login_password
    \/ login_submit
    \/ login_wait
    \/ get_server_url
    \/ renew_server_start
    \/ renew_search
    \/ renew_open_tab
    \/ renew_ad_gate_attempt
    \/ renew_close_tab
    \/ renew_reload
    \/ renew_reconcile
    \/ run_except
    \/ run_finally
    \/ run_all_after_run
    \/ run_all_except
    \/ run_all_append
    \/ run_all_finish

Next ==
    \/ MultiAccountManager_init
    \/ main_except
    \/ RunAll
    \/ main_exit

Spec == Init /\ [][Next]_vars

----------------------------------------------------------------------------
(* The whole program over the values the account variables can hold:      *)
(* every string of at most MaxValueLen characters for PELLA_ACCOUNTS, with *)
(* and without the fallback variables                                      *)

Values == UNION {[1..n -> {"a", ":", ";", " "}] : n \in 0..MaxValueLen}

\* marks a variable that is not set
UNSET == <<"unset">>

\* os.environ with the variables of vals that are set
Environ(vals) ==
    [name \in {n \in DOMAIN vals : vals[n] # UNSET} |-> vals[name]]

\* PELLA_EMAIL / PELLA_PASSWORD / LEAFLOW_EMAIL / LEAFLOW_PASSWORD
Single(pe, pp, le, lp) == [pe |-> pe, pp |-> pp, le |-> le, lp |-> lp]

IncompleteSingles ==
    { Single(UNSET, UNSET, UNSET, UNSET),
      Single(<<"a">>, UNSET, UNSET, UNSET),
      Single(<<" ">>, <<"a">>, UNSET, UNSET),
      Single(<<>>, <<"a">>, <<"a">>, UNSET) }

CompleteSingles ==
    { Single(<<"a">>, <<"a", " ">>, UNSET, UNSET),
      Single(UNSET, <<"b">>, <<" ", "b">>, UNSET),
      Single(UNSET, UNSET, <<"a">>, <<"b">>) }

Configured(pa, la, single) ==
    Environ([PELLA_ACCOUNTS |-> pa, LEAFLOW_ACCOUNTS |-> la,
             PELLA_EMAIL |-> single.pe, PELLA_PASSWORD |-> single.pp,
             LEAFLOW_EMAIL |-> single.le, LEAFLOW_PASSWORD |-> single.lp])

Environs ==
    {Configured(pa, UNSET, Single(UNSET, UNSET, UNSET, UNSET)) :
        pa \in Values}
    \cup {Configured(pa, la, single) :
             pa \in {UNSET, <<>>, <<" ">>, <<"a">>, <<"a", ":">>, <<";">>},
             la \in {UNSET, <<"b", ":", "a">>},
             single \in IncompleteSingles \cup CompleteSingles}
    \cup {Configured(<<"a", ":", "b", ";", " ", "b", ":", "a", ",">>, UNSET,
                      Single(<<"a">>, <<"a">>, UNSET, UNSET))}

InitLoad ==
    /\ environ \in Environs
    /\ accounts = <<>>
    /\ pc = "main"
    /\ Constructed
    /\ NoCall
    /\ remote = "consumes"

SpecLoad == InitLoad /\ [][Next]_vars

----------------------------------------------------------------------------
(* run_all over account lists that were not filtered by load_accounts:     *)
(* the constructor of PellaAutoRenew given an empty email or password      *)

CtorRosters ==
    { << Credential(<<"a">>, <<>>), Roster[1], Credential(<<>>, <<"p">>),
         Credential(<<>>, <<>>) >>,
      << Roster[1], Credential(<<>>, <<"p">>), Credential(<<"a">>, <<>>),
         Roster[2] >>,
      << Credential(<<>>, <<>>), Credential(<<"a">>, <<>>), Roster[1],
         Credential(<<>>, <<"p">>) >> }

InitCtor ==
    /\ environ \in {<<>>, Environ([DEBUG_MODE |-> <<"1">>])}
    /\ \E n \in 1..MaxAccounts, roster \in CtorRosters :
          accounts = SubSeq(roster, 1, n)
    /\ pc = "loop"
    /\ Constructed
    /\ NoCall
    /\ remote = "consumes"

SpecCtor == InitCtor /\ [][RunAll]_vars

----------------------------------------------------------------------------
(* send_notification on its own: results of at most MaxResults accounts,   *)
(* the messages given as strings, with and without the Telegram variables  *)

NotifyEmails ==
    { <<"a", "l", "i", "c", "e", "@", "e", "x", "a", "m", "p", "l", "e", ".",
        "c", "o", "m">>,
      <<"b", "o", "@", "y", ".", "o", "r", "g">>,
      <<"c", "a", "r", "o", "l">>,
      <<"a", "@", "b", "@", "c">> }

\* 101 characters on one line, the last one different from the others
LongLine == [k \in 1..101 |-> IF k = 101 THEN "!" ELSE "x"]

NotifyOutcomes ==
    { [success |-> TRUE, result |-> FixedText("renewed")],
      [success |-> TRUE,
       result |-> FixedText("no clickable renew button, maybe renewed today")],
      [success |-> FALSE, result |-> LongLine],
      [success |-> FALSE, result |-> SubSeq(LongLine, 1, 100)],
      [success |-> FALSE,
       result |-> <<"e", "r", "r", "\n", "t", "r", "a", "c", "e">>] }

NotifyResults ==
    {[email |-> e, success |-> o.success, result |-> o.result] :
        e \in NotifyEmails, o \in NotifyOutcomes}

TelegramEnvirons ==
    {Environ([TG_BOT_TOKEN |-> t, TG_CHAT_ID |-> c]) :
        t \in {UNSET, <<>>, <<"t">>}, c \in {UNSET, <<"c">>}}

InitNotify ==
    /\ environ \in TelegramEnvirons
    /\ accounts = <<>>
    /\ pc = "send_notification"
    /\ Started
    /\ \E n \in 0..MaxResults : results \in [1..n -> NotifyResults]
    /\ NoCall
    /\ remote = "consumes"

\* self.send_notification(results)
send_notification_call ==
    /\ pc = "send_notification"
    /\ summary' = send_notification(environ, results)
    /\ pc' = "notified"
    /\ UNCHANGED <<mainVars, accounts, i, results, success, result, overall,
                   delays, hist, exc, ret, runnerVars, renewVars, browserVars,
                   avail, steps, raised, parseVars, findVars>>
    /\ UNCHANGED login_state
    /\ UNCHANGED <<remote, waitVars, clickVars>>
    /\ UNCHANGED loopHist

NextNotify ==
    \/ send_notification_call

SpecNotify == InitNotify /\ [][NextNotify]_vars

----------------------------------------------------------------------------
(* extract_expiry_days on its own: every text of at most MaxPhrases        *)
(* phrases, "Other" being text none of the patterns matches                *)

Phrases ==
    {Phrase(f, d, h, m) : f \in {"YourServerDHM", "ExpiresDHM"},
                          d \in {0, 2}, h \in {0, 5}, m \in {0, 30}}
    \cup {Phrase(f, 0, h, m) : f \in {"ExpiresHM", "ExpiringHM"},
                               h \in {0, 5}, m \in {0, 30}}
    \cup {Phrase("ExpiresD", d, 0, 0) : d \in {0, 2}}
    \cup {Phrase("Other", 0, 0, 0)}

Texts == UNION {[1..n -> Phrases] : n \in 0..MaxPhrases}

InitParse ==
    /\ environ = RosterEnviron(1)
    /\ accounts = SubSeq(Roster, 1, 1)
    /\ pc = "extract_expiry_days"
    /\ Constructed
    /\ page_source \in Texts
    /\ parsed = "None"
    /\ NoFind
    /\ remote = "consumes"
    /\ NoWait
    /\ NoClick

extract_expiry_days_call ==
    /\ pc = "extract_expiry_days"
    /\ parsed' = extract_expiry_days(page_source)
    /\ pc' = "extracted"
    /\ UNCHANGED <<batchVars, exc, ret, runnerVars, renewVars, browserVars,
                   avail, steps, raised, page_source, findVars, mainVars>>
    /\ UNCHANGED login_state
    /\ UNCHANGED <<remote, waitVars, clickVars>>
    /\ UNCHANGED loopHist

NextParse ==
    \/ extract_expiry_days_call

SpecParse == InitParse /\ [][NextParse]_vars

----------------------------------------------------------------------------
(* find_element_with_multiple_selectors on its own.  A candidate of the    *)
(* chain resolves within the timeout, times out, or the driver raises      *)
(* something other than TimeoutException while it is waited for.  The      *)
(* element a candidate resolves to is named by the candidate's index, and  *)
(* 0 stands for None.                                                      *)

SelectorOutcomes == {"resolves", "times out", "raises"}

Chains == UNION {[1..n -> SelectorOutcomes] : n \in 0..MaxSelectors}

InitFind ==
    /\ environ = RosterEnviron(1)
    /\ accounts = SubSeq(Roster, 1, 1)
    /\ pc = "find"
    /\ Constructed
    /\ NoParse
    /\ selectors \in Chains
    /\ tried = <<>>
    /\ element = 0
    /\ remote = "consumes"
    /\ NoWait
    /\ NoClick

\* fault injection: the loop goes on after a hit
AfterHitKeepLooking == "find"

\* `return element` inside the loop
AfterHit == "find_returned"

\* one pass of `for selector_type, selector_value in selectors`
find_try_selector ==
    /\ pc = "find"
    /\ Len(tried) < Len(selectors)
    /\ LET k == Len(tried) + 1
       IN  /\ tried' = Append(tried, k)
           /\ CASE selectors[k] = "resolves" ->
                     /\ element' = k
                     /\ pc' = AfterHit
                     /\ UNCHANGED <<exc, raised>>
                [] selectors[k] = "times out" ->   \* except: continue
                     UNCHANGED <<element, pc, exc, raised>>
                [] selectors[k] = "raises" ->
                     /\ Raise("driver error", "find_raised")
                     /\ UNCHANGED element
    /\ UNCHANGED <<batchVars, ret, runnerVars, renewVars, browserVars, avail,
                   steps, parseVars, selectors, mainVars>>
    /\ UNCHANGED login_state
    /\ UNCHANGED <<remote, waitVars, clickVars>>
    /\ UNCHANGED loopHist

\* `return None` after the loop
find_exhausted ==
    /\ pc = "find"
    /\ Len(tried) = Len(selectors)
    /\ element' = 0
    /\ pc' = "find_returned"
    /\ UNCHANGED <<batchVars, exc, ret, runnerVars, renewVars, browserVars,
                   avail, steps, raised, parseVars, selectors, tried,
                   mainVars>>
    /\ UNCHANGED login_state
    /\ UNCHANGED <<remote, waitVars, clickVars>>
    /\ UNCHANGED loopHist

NextFind ==
    \/ find_try_selector
    \/ find_exhausted

SpecFind == InitFind /\ [][NextFind]_vars

----------------------------------------------------------------------------
(* One account processed by run_all, the remote site removing a used link  *)
(* from the reloaded page or leaving it there.  The single thread of       *)
(* control always takes its next step.                                     *)

InitLoop ==
    /\ environ = RosterEnviron(1)
    /\ accounts = SubSeq(Roster, 1, 1)
    /\ pc = "loop"
    /\ Constructed
    /\ NoCall
    /\ remote \in {"consumes", "keeps"}

SpecLoop == InitLoop /\ [][RunAll]_vars /\ WF_vars(RunAll)

----------------------------------------------------------------------------
(* Step 5 of login on its own: every end of the wait, every URL and every  *)
(* state of the error element                                              *)

InitWait ==
    /\ environ = RosterEnviron(1)
    /\ accounts = SubSeq(Roster, 1, 1)
    /\ pc = "login_wait_call"
    /\ Constructed
    /\ remote = "consumes"
    /\ NoParse
    /\ NoFind
    /\ NoClick
    /\ url_wait \in WaitEnds
    /\ current_url \in Urls
    /\ error_element \in ErrorElements
    /\ login_ret = "None"

login_wait_call ==
    /\ pc = "login_wait_call"
    /\ login_ret' = login_wait_result(url_wait, current_url, error_element)
    /\ pc' = "login_waited"
    /\ UNCHANGED <<mainVars, batchVars, exc, ret, runnerVars, renewVars,
                   browserVars, avail, steps, raised, login_state, parseVars,
                   findVars, remote, loopHist, clickVars, url_wait,
                   current_url, error_element>>

NextWait ==
    \/ login_wait_call

SpecWait == InitWait /\ [][NextWait]_vars

----------------------------------------------------------------------------
(* Step 4 of login from the button found on: the wait for is_enabled and   *)
(* the three click strategies.  Time is counted in wait intervals of half  *)
(* a second.  enabled_after is the number of polls after which the button  *)
(* reads as enabled, NEVER_ENABLED when it stays disabled and STALE when    *)
(* is_enabled() raises.                                                    *)

\* max_wait_for_enable / wait_interval
max_wait_for_enable == 20

NEVER_ENABLED == max_wait_for_enable + 1

STALE == -1

\* JS click, direct click, form submit
ClickStrategies == <<"script click", "native click", "form submit">>

InitClick ==
    /\ environ = RosterEnviron(1)
    /\ accounts = SubSeq(Roster, 1, 1)
    /\ pc = "click_wait"
    /\ Constructed
    /\ remote = "consumes"
    /\ NoParse
    /\ NoFind
    /\ NoWait
    /\ enabled_after \in {STALE, 0, 1, max_wait_for_enable - 1,
                          max_wait_for_enable, NEVER_ENABLED}
    /\ click_raises \in [1..Len(ClickStrategies) -> BOOLEAN]
    /\ elapsed = 0
    /\ clicks = <<>>
    /\ click_success = FALSE

\* login_btn.is_enabled()
is_enabled == elapsed >= enabled_after

\* one evaluation of `while not login_btn.is_enabled() and elapsed <
\* max_wait_for_enable`, and the body when it holds
click_wait ==
    /\ pc = "click_wait"
    /\ IF enabled_after = STALE
       THEN /\ Raise("driver error", "click_raised")
            /\ UNCHANGED elapsed
       ELSE /\ IF ~is_enabled /\ elapsed < max_wait_for_enable
               THEN /\ elapsed' = elapsed + 1
                    /\ UNCHANGED pc
               ELSE /\ pc' = "click_try"
                    /\ UNCHANGED elapsed
            /\ UNCHANGED <<exc, raised>>
    /\ UNCHANGED <<mainVars, batchVars, ret, runnerVars, renewVars,
                   browserVars, avail, steps, login_state, parseVars,
                   findVars, remote, loopHist, waitVars, enabled_after,
                   click_raises, clicks, click_success>>

\* fault injection: the next strategy is tried whatever the one before did
TryNextAlways(strategy_raised) == TRUE

\* the next strategy sits in the except clause of the one before
TryNext(strategy_raised) == strategy_raised

\* one of the three nested try blocks, then `if not click_success: raise`
click_try ==
    /\ pc = "click_try"
    /\ LET k == Len(clicks) + 1
       IN  /\ clicks' = Append(clicks, ClickStrategies[k])
           /\ click_success' = (click_success \/ ~click_raises[k])
           /\ IF k < Len(ClickStrategies) /\ TryNext(click_raises[k])
              THEN UNCHANGED <<pc, exc, raised>>
              ELSE IF click_success'
                   THEN /\ pc' = "click_done"
                        /\ UNCHANGED <<exc, raised>>
                   ELSE Raise("all click methods failed", "click_raised")
    /\ UNCHANGED <<mainVars, batchVars, ret, runnerVars, renewVars,
                   browserVars, avail, steps, login_state, parseVars,
                   findVars, remote, loopHist, waitVars, enabled_after,
                   click_raises, elapsed>>

NextClick ==
    \/ click_wait
    \/ click_try

SpecClick == InitClick /\ [][NextClick]_vars

----------------------------------------------------------------------------
(* Properties *)

FailureKinds == {"auto renew failed", "account exception"}

\* C1: run_all appends exactly one outcome per credential, in input order;
\* an account whose processing raised is recorded as a failure, and every
\* outcome depends on that account's own processing alone.
C1_OneOutcomePerCredential ==
    /\ Len(results) = i - 1
    /\ Len(hist) = Len(results)
    /\ Len(results) <= Len(accounts)
    /\ pc = "done" => Len(results) = Len(accounts)
    /\ \A k \in 1..Len(results) :
         /\ results[k].email = accounts[k].email
         /\ results[k].success = ~hist[k].raised
         /\ hist[k].raised => results[k].result.kind \in FailureKinds
         /\ ~hist[k].raised => results[k].result.kind \notin FailureKinds

C1_Witness ==
    /\ pc = "done"
    /\ Len(results) = 2
    /\ hist[1].raised /\ ~results[1].success
    /\ ~hist[2].raised /\ results[2].success

\* C2: when run has ended, on whatever path, this account's browser
\* session has been quit.
C2_SessionReleasedOnExit ==
    pc = "run_returned" => (i \notin live /\ driver = "quit")

C2_Witness ==
    /\ pc = "run_returned"
    /\ "renew_server" \in steps
    /\ ~ret[1]
    /\ driver = "quit"

\* C3: a browser session is released before the next account's session is
\* acquired: at most one is live at any time, none when the constructor of
\* the next account starts, and none when run_all returns.
C3_AtMostOneSession ==
    /\ Cardinality(live) <= 1
    /\ pc = "ctor" => live = {}
    /\ pc = "done" => live = {}

\* C4: run returns a (boolean, message) pair and lets no exception through;
\* True only when login, get_server_url and renew_server all returned; False
\* with an error message when one of them raised; renew_server is entered
\* only after login returned and a server URL was set.
C4_RunReturnsOutcome ==
    /\ pc = "run_returned" =>
         /\ exc = "None"
         /\ ret[1] \in BOOLEAN
         /\ ret[1] =>
              /\ ~raised
              /\ {"login", "server_url", "renew_server returned"} \subseteq steps
         /\ raised =>
              /\ ~ret[1]
              /\ ret[2].kind = "auto renew failed"
              /\ ret[2].cause # "None"
    /\ pc = "run_all_except" => driver # "quit"
    /\ "renew_server" \in steps =>
         /\ {"login", "server_url"} \subseteq steps
         /\ server_url # "None"

C4_Witness ==
    /\ pc = "run_returned"
    /\ raised
    /\ "renew_server" \in steps
    /\ ret = <<FALSE, Msg("auto renew failed", "renew flow error", <<>>, <<>>)>>

\* C5: when at least one renewal action was taken and the final snapshot (a
\* parsed one) is below the initial one, the account's outcome is a failure
\* and so is the batch's overall result.
C5_AnomalyFailsAccount ==
    /\ (/\ pc = "run_returned"
        /\ "reconciled" \in steps
        /\ renewed_count > 0
        /\ final_expiry_value # UNPARSED
        /\ final_expiry_value < initial_expiry_value) => ~ret[1]
    /\ \A k \in 1..Len(results) : hist[k].anomaly => ~results[k].success
    /\ (pc = "done" /\ \E k \in 1..Len(hist) : hist[k].anomaly) => ~overall

\* the positions inside the renewal loop and its reconciliation
LoopPositions == {"search", "open", "ad_gate", "reload", "reconcile"}

C6_ResultMatchesComparison ==
    (pc = "run_finally" /\ "reconciled" \in steps) =>
        LET kind == ret[2].kind
        IN  /\ renewed_count > 0
            /\ ret[1]
            /\ final_expiry_value > initial_expiry_value
                 <=> (kind = "renewed" /\ Len(ret[2].added) = 3)
            /\ final_expiry_value = initial_expiry_value
                 <=> kind = "completed but days did not increase"
            /\ final_expiry_value < initial_expiry_value
                 <=> kind = "completed but days went down"

C6_InitialKept ==
    pc \in LoopPositions =>
        (/\ initial_expiry_value' = initial_expiry_value
         /\ initial_expiry_details' = initial_expiry_details)

\* C6: after a loop that processed at least one renewal link the fresh
\* snapshot is compared with the initial one and the result is the success
\* message exactly when final > initial, the no-increase message exactly
\* when final = initial, the went-down message exactly when final < initial;
\* no step of the loop changes the initial snapshot.
C6_ReconciliationTrichotomy ==
    /\ []C6_ResultMatchesComparison
    /\ [][C6_InitialKept]_vars

C6_Witness ==
    /\ pc = "run_finally"
    /\ "reconciled" \in steps
    /\ renewed_count = 2
    /\ final_expiry_value = initial_expiry_value
    /\ ret[2].kind = "completed but days did not increase"

\* C7: for final > initial the reported (days, hours, minutes) add up to
\* final - initial, with hours below 24 and minutes below 60; 5 days to
\* 7 days 12 hours is reported as 2 days 12 hours 0 minutes.
C7_AddedPartsExact ==
    (/\ pc = "run_finally"
     /\ "reconciled" \in steps
     /\ final_expiry_value > initial_expiry_value) =>
        LET added == ret[2].added
        IN  /\ added[1] * 1440 + added[2] * 60 + added[3]
                 = final_expiry_value - initial_expiry_value
            /\ added[1] >= 0
            /\ added[2] \in 0..23
            /\ added[3] \in 0..59
            /\ (initial_expiry_value = 5 * 1440
                /\ final_expiry_value = 7 * 1440 + 12 * 60)
                 => added = <<2, 12, 0>>

C7_Witness ==
    /\ pc = "run_finally"
    /\ "reconciled" \in steps
    /\ initial_expiry_value = 5 * 1440
    /\ final_expiry_value = 7 * 1440 + 12 * 60
    /\ ret[2].added = <<2, 12, 0>>

\* C8: with no renewal link ever found the result is the not-refreshed
\* message if the page has the hint, else the disabled-button message if a
\* disabled button exists, else the no-button message; no final snapshot is
\* taken.
C8_NothingToDoPrecedence ==
    (/\ pc = "run_finally"
     /\ "renew_server returned" \in steps
     /\ renewed_count = 0) =>
        LET kind == ret[2].kind
        IN  /\ hint => kind = "links not refreshed yet, wait 24 hours"
            /\ (~hint /\ disabled_buttons)
                 => kind = "no clickable renew button, maybe renewed today"
            /\ (~hint /\ ~disabled_buttons) => kind = "no renew button at all"
            /\ "reconciled" \notin steps
            /\ final_expiry_value = UNPARSED

C8_Witness ==
    /\ pc = "run_finally"
    /\ renewed_count = 0
    /\ hint /\ disabled_buttons
    /\ ret = <<TRUE, Plain("links not refreshed yet, wait 24 hours")>>

\* C9: at every search for renewal links and at reconciliation no secondary
\* tab is open: only the primary tab exists.
C9_NoSecondaryTabLeft ==
    pc \in {"search", "reconcile"} => tabs = 0

\* C10: the reload of the detail page, the search for renewal links and the
\* reconciliation are done with the driver switched to the primary tab, also
\* after a close of the secondary tab that raised.
C10_FocusOnPrimary ==
    pc \in {"reload", "search", "reconcile"} => focus = "primary"

C10_Witness ==
    /\ pc = "reload"
    /\ tabs > 0
    /\ continue_clicked
    /\ focus = "primary"

----------------------------------------------------------------------------
(* extract_expiry_days, stated from the five patterns *)

\* the groups each family captures; a group it lacks counts as 0
Captured(fam, p) ==
    CASE fam \in {1, 4} -> [d |-> p.d, h |-> p.h, m |-> p.m]
      [] fam \in {2, 3} -> [d |-> 0, h |-> p.h, m |-> p.m]
      [] fam = 5 -> [d |-> p.d, h |-> 0, m |-> 0]

\* the lowest-numbered family that matches the text; 0 when none does
MatchingFamily(text) ==
    IF \E fam \in 1..5 : FirstMatch(fam, text) # 0
    THEN CHOOSE fam \in 1..5 :
            /\ FirstMatch(fam, text) # 0
            /\ \A g \in 1..(fam - 1) : FirstMatch(g, text) = 0
    ELSE 0

\* what family fam alone makes of the text it matches
FamilyResult(fam, text) ==
    LET c == Captured(fam, text[FirstMatch(fam, text)])
    IN  [details |-> DetailedString(c),
         value |-> c.d * 1440 + c.h * 60 + c.m]

\* C14: the result of extract_expiry_days is the result of the
\* lowest-numbered of the five pattern families that matches the text,
\* whatever later families match and wherever in the text they match.
C14_FirstFamilyWins ==
    pc = "extracted" =>
        \A fam \in 1..5 :
            (/\ FirstMatch(fam, page_source) # 0
             /\ \A g \in 1..(fam - 1) : FirstMatch(g, page_source) = 0)
            => parsed = FamilyResult(fam, page_source)

\* a text with pattern 2's phrase before pattern 1's resolves to pattern 1
C14_Witness ==
    /\ pc = "extracted"
    /\ FirstMatch(1, page_source) = 2
    /\ FirstMatch(2, page_source) = 1
    /\ parsed = FamilyResult(1, page_source)
    /\ parsed # FamilyResult(2, page_source)

\* C15: extract_expiry_days returns the unparsed pair (value -1.0, detail
\* "cannot extract") exactly when no family matches; a matched text, all
\* zero components included, yields a value >= 0 and another detail.
C15_UnparsedIffNoMatch ==
    pc = "extracted" =>
        LET matched == \E fam \in 1..5 : FirstMatch(fam, page_source) # 0
        IN  /\ ~matched <=> parsed.value = UNPARSED
            /\ ~matched <=> parsed.details = CANNOT_EXTRACT
            /\ matched => parsed.value >= 0

\* a matched text whose components are all zero parses to the value 0
C15_Witness ==
    /\ pc = "extracted"
    /\ MatchingFamily(page_source) # 0
    /\ parsed.value = 0
    /\ parsed.details = <<DetailPart(0, "minute")>>

\* C16: for a matched text the value is days*1440 + hours*60 + minutes of
\* the groups the matching family captured in the phrase it matched, a
\* group the family lacks counting as 0; the detail names those groups.
C16_ValueFromMatchedGroups ==
    (pc = "extracted" /\ MatchingFamily(page_source) # 0) =>
        LET fam == MatchingFamily(page_source)
            p == page_source[FirstMatch(fam, page_source)]
            days == IF fam \in {1, 4, 5} THEN p.d ELSE 0
            hours == IF fam \in {1, 2, 3, 4} THEN p.h ELSE 0
            minutes == IF fam \in {1, 2, 3, 4} THEN p.m ELSE 0
        IN  /\ parsed.value = days * 1440 + hours * 60 + minutes
            /\ parsed.details =
                   DetailedString([d |-> days, h |-> hours, m |-> minutes])

\* an hours-and-minutes match on a page that also shows a day count
C16_Witness ==
    /\ pc = "extracted"
    /\ MatchingFamily(page_source) = 2
    /\ \E k \in 1..Len(page_source) :
          page_source[k].form = "ExpiresD" /\ page_source[k].d > 0
    /\ parsed.value = 5 * 60 + 30

----------------------------------------------------------------------------
(* find_element_with_multiple_selectors *)

\* the candidates of the chain that resolve
Hits == {k \in 1..Len(selectors) : selectors[k] = "resolves"}

\* C13: the candidates are queried in chain order, one after the other;
\* the function returns the element of the lowest-index candidate that
\* resolves and queries none after it; when every candidate times out it
\* returns None and does not raise.
C13_FirstHitShortCircuits ==
    /\ tried = [k \in 1..Len(tried) |-> k]
    /\ Len(tried) <= Len(selectors)
    /\ \A k \in Hits : Len(tried) <= k
    /\ pc = "find_returned" =>
          IF Hits # {}
          THEN element \in Hits /\ Len(tried) = element
          ELSE element = 0 /\ Len(tried) = Len(selectors)
    /\ (\A k \in 1..Len(selectors) : selectors[k] = "times out")
          => pc # "find_raised"
    /\ pc = "find_raised" =>
          /\ selectors[Len(tried)] = "raises"
          /\ \A k \in 1..Len(tried) - 1 : selectors[k] = "times out"

\* a chain of three where only the second resolves: its element is
\* returned and the third was not queried
C13_Witness ==
    /\ pc = "find_returned"
    /\ selectors = <<"times out", "resolves", "times out">>
    /\ element = 2
    /\ tried = <<1, 2>>

----------------------------------------------------------------------------
(* load_accounts and main *)

\* the value the multi-account format is read from
MultiValue ==
    IF "PELLA_ACCOUNTS" \in DOMAIN environ THEN environ["PELLA_ACCOUNTS"]
    ELSE IF "LEAFLOW_ACCOUNTS" \in DOMAIN environ
         THEN environ["LEAFLOW_ACCOUNTS"]
         ELSE <<>>

SingleValue(name, fallback) ==
    IF name \in DOMAIN environ THEN environ[name]
    ELSE IF fallback \in DOMAIN environ THEN environ[fallback] ELSE <<>>

Blank(s) == \A k \in 1..Len(s) : s[k] = " "

\* the pair of MultiValue around position c: the characters between the
\* separators (or the ends of the value) nearest to c
PairStart(c) ==
    LET seps == {k \in 1..(c - 1) : MultiValue[k] \in {";", ","}}
    IN  IF seps = {} THEN 1
        ELSE 1 + CHOOSE k \in seps : \A j \in seps : j <= k

PairEnd(c) ==
    LET seps == {k \in (c + 1)..Len(MultiValue) :
                    MultiValue[k] \in {";", ","}}
    IN  IF seps = {} THEN Len(MultiValue)
        ELSE (CHOOSE k \in seps : \A j \in seps : k <= j) - 1

\* the first ':' of each pair that has an identity before it and a secret
\* after it
UsablePairs ==
    {c \in 1..Len(MultiValue) :
        /\ MultiValue[c] = ":"
        /\ \A k \in PairStart(c)..(c - 1) : MultiValue[k] # ":"
        /\ ~Blank(SubSeq(MultiValue, PairStart(c), c - 1))
        /\ ~Blank(SubSeq(MultiValue, c + 1, PairEnd(c)))}

SingleComplete ==
    /\ ~Blank(SingleValue("PELLA_EMAIL", "LEAFLOW_EMAIL"))
    /\ ~Blank(SingleValue("PELLA_PASSWORD", "LEAFLOW_PASSWORD"))

\* C12: when the multi-account value has no pair with a non-empty
\* identity and secret and the single-account pair is incomplete,
\* load_accounts raises, the process exits with status 1, no browser is
\* ever started, no account processed and no summary produced; otherwise load_accounts
\* returns a non-empty list, one credential per usable pair in the order
\* of the pairs (or the single pair), each with both parts non-empty.
C12_LoadOrConfigurationFault ==
    pc # "main" =>
        IF UsablePairs = {} /\ ~SingleComplete
        THEN /\ pc \in {"main_except", "exited"}
             /\ pc = "exited" => exit_status = 1
             /\ accounts = <<>>
             /\ live = {}
             /\ results = <<>>
             /\ steps = {}
             /\ summary = NOT_SENT
        ELSE /\ pc # "main_except"
             /\ exit_status # 1
             /\ accounts # <<>>
             /\ \A k \in 1..Len(accounts) :
                   /\ accounts[k].email # <<>>
                   /\ accounts[k].password # <<>>
             /\ UsablePairs # {} =>
                   /\ Len(accounts) = Cardinality(UsablePairs)
                   /\ \A c \in UsablePairs :
                         LET k == Cardinality({d \in UsablePairs : d <= c})
                         IN  /\ accounts[k].email =
                                   strip(SubSeq(MultiValue, PairStart(c),
                                                c - 1))
                             /\ accounts[k].password =
                                   strip(SubSeq(MultiValue, c + 1,
                                                PairEnd(c)))

\* a multi-account value with a ':' but no usable pair, an incomplete
\* single pair, and the process has exited with status 1
C12_Witness ==
    /\ pc = "exited"
    /\ exit_status = 1
    /\ \E k \in 1..Len(MultiValue) : MultiValue[k] = ":"
    /\ \E k \in 1..Len(MultiValue) : MultiValue[k] = "a"
    /\ "PELLA_EMAIL" \in DOMAIN environ

\* C11: run_all returns overall success exactly when every outcome has
\* success = TRUE, after one outcome for every loaded account whatever
\* happened to the earlier ones; the process exits with status 0 whenever
\* run_all ran, and with status 1 only when load_accounts raised.
C11_OverallAndExitStatus ==
    /\ pc \in {"done", "exited"} /\ accounts # <<>> =>
          /\ Len(results) = Len(accounts)
          /\ \A k \in 1..Len(accounts) : results[k].email = accounts[k].email
          /\ overall = \A k \in 1..Len(results) : results[k].success
    /\ pc = "exited" =>
          /\ exit_status \in {0, 1}
          /\ exit_status = 0 <=> accounts # <<>>
          /\ exit_status = 1 <=> load_accounts(environ).raised
    /\ pc # "exited" => exit_status = -1

\* the first account failed, the second succeeded, overall is FALSE and
\* the exit status is 0
C11_Witness ==
    /\ pc = "exited"
    /\ exit_status = 0
    /\ Len(results) = 2
    /\ ~results[1].success
    /\ results[2].success
    /\ ~overall

----------------------------------------------------------------------------
(* PellaAutoRenew.__init__ *)

EmptyPart(account) == account.email = <<>> \/ account.password = <<>>

\* C17: the constructor of a runner given an empty email or an empty
\* password raises before a browser is started, no step of run is taken,
\* and run_all records the account as failed with that exception.
C17_EmptyCredentialRejected ==
    /\ (i <= Len(accounts) /\ EmptyPart(accounts[i])) =>
          /\ pc \in {"loop", "ctor", "run_all_except", "append"}
          /\ driver = "None"
          /\ i \notin live
          /\ steps = {}
          /\ pc \in {"run_all_except", "append"} => raised
    /\ \A k \in 1..Len(results) :
          EmptyPart(accounts[k]) =>
              /\ ~results[k].success
              /\ results[k].result =
                    Msg("account exception",
                        "email and password must not be empty", <<>>, <<>>)

\* an account with an empty password only was recorded as failed, and the
\* batch went on to construct a runner for the next account
C17_Witness ==
    /\ Len(results) = 2
    /\ accounts[1].password = <<>>
    /\ accounts[1].email # <<>>
    /\ ~results[1].success
    /\ results[2].success

----------------------------------------------------------------------------
(* send_notification *)

HasAt(email) == \E k \in 1..Len(email) : email[k] = "@"

\* the characters before the first '@'; the whole identity without one
LocalPart(email) ==
    IF HasAt(email)
    THEN SubSeq(email, 1,
                (CHOOSE k \in 1..Len(email) :
                    /\ email[k] = "@"
                    /\ \A j \in 1..(k - 1) : email[j] # "@") - 1)
    ELSE email

\* the characters after the first '@'; empty without one
Domain(email) ==
    IF HasAt(email)
    THEN SubSeq(email, Len(LocalPart(email)) + 2, Len(email))
    ELSE <<>>

\* shown is the first line of text, cut after 100 characters
IsShortOf(shown, text) ==
    /\ Len(shown) <= 100
    /\ Len(shown) <= Len(text)
    /\ \A k \in 1..Len(shown) : shown[k] = text[k] /\ shown[k] # "\n"
    /\ Len(shown) < 100 =>
          Len(shown) = Len(text) \/ text[Len(shown) + 1] = "\n"

\* one line per outcome, in order, each with the cut first line
LinesFollowResults ==
    /\ Len(summary.lines) = Len(results)
    /\ \A k \in 1..Len(results) :
          IsShortOf(summary.lines[k].short_result, results[k].result)

\* C18 as stated: one line per outcome in processing order, every
\* identity shown as the first at most 3 characters of its local part,
\* then '***@', then the full domain, and the message its first line cut
\* to 100 characters.
C18_EveryIdentityMaskedWithDomain ==
    (pc = "notified" /\ summary.sent) =>
        /\ LinesFollowResults
        /\ \A k \in 1..Len(results) :
              summary.lines[k].masked_email =
                  take(LocalPart(results[k].email), 3)
                  \o <<"*", "*", "*", "@">> \o Domain(results[k].email)

\* C18, amended: as above for an identity that contains '@'; an identity
\* without '@' is shown as its first at most 3 characters, then '***',
\* with no '@' and no domain.
C18_MaskedLines ==
    (pc = "notified" /\ summary.sent) =>
        /\ LinesFollowResults
        /\ \A k \in 1..Len(results) :
              summary.lines[k].masked_email =
                  IF HasAt(results[k].email)
                  THEN take(LocalPart(results[k].email), 3)
                       \o <<"*", "*", "*", "@">> \o Domain(results[k].email)
                  ELSE take(results[k].email, 3) \o <<"*", "*", "*">>

\* "alice@example.com" with a message of 101 characters is shown as
\* "ali***@example.com" with 100 characters, after a line for another
\* account
C18_Witness ==
    /\ pc = "notified"
    /\ summary.sent
    /\ Len(results) = 2
    /\ results[2].email =
          <<"a", "l", "i", "c", "e", "@", "e", "x", "a", "m", "p", "l", "e",
            ".", "c", "o", "m">>
    /\ results[1].email # results[2].email
    /\ summary.lines[2].masked_email =
          <<"a", "l", "i", "*", "*", "*", "@", "e", "x", "a", "m", "p", "l",
            "e", ".", "c", "o", "m">>
    /\ Len(results[2].result) = 101
    /\ Len(summary.lines[2].short_result) = 100

----------------------------------------------------------------------------
(* login *)

LoginOrder ==
    <<"Start", "EmailEntered", "EmailSubmitted", "PasswordEntered",
      "LoginSubmitted", "LoggedIn">>

\* a stage is entered from the stage before it; Failed from any stage
\* before LoggedIn, also when the login page itself cannot be opened
LoginTransitions ==
    {<<"NotStarted", "Start">>}
    \cup {<<LoginOrder[k], LoginOrder[k + 1]>> : k \in 1..5}
    \cup {<<s, "Failed">> :
             s \in {"NotStarted"} \cup {LoginOrder[k] : k \in 1..5}}
    \cup {<<"LoggedIn", "NotStarted">>, <<"Failed", "NotStarted">>}

LoginAdvances ==
    login_state' # login_state =>
        /\ <<login_state, login_state'>> \in LoginTransitions
        /\ login_state' = "NotStarted" => pc = "append"

\* what has been done by the time a stage is reached
LoginStageMatchesSteps ==
    /\ "secret typed" \in steps => "email submit clicked" \in steps
    /\ "email submit clicked" \in steps => "email typed" \in steps
    /\ "login clicked" \in steps => "secret typed" \in steps
    /\ "login" \in steps => "login clicked" \in steps
    /\ "login" \in steps <=> login_state = "LoggedIn"
    /\ login_state = "EmailEntered" => pc = "login_submit_email"
    /\ login_state = "EmailSubmitted" => pc = "login_password"
    /\ login_state = "PasswordEntered" => pc = "login_submit"
    /\ login_state = "LoginSubmitted" => pc = "login_wait"
    /\ login_state = "Failed" =>
          pc \in {"run_except", "run_finally", "run_returned", "append"}

\* C19: the login flow goes through Start, EmailEntered, EmailSubmitted,
\* PasswordEntered, LoginSubmitted in this order, one stage at a time, and
\* ends in LoggedIn or Failed; the secret is typed after the email-submit
\* click, the login click after the secret, and login returns success
\* from LoginSubmitted only.
C19_LoginStagesInOrder ==
    []LoginStageMatchesSteps /\ [][LoginAdvances]_vars

\* login has returned True after all five steps
C19_Witness ==
    /\ pc = "get_server_url"
    /\ login_state = "LoggedIn"
    /\ {"email typed", "email submit clicked", "secret typed",
        "login clicked", "login"} \subseteq steps

\* C20: when the chain of the email field or of the password field finds
\* nothing, login raises at that step: no later step of login is taken,
\* get_server_url and renew_server are not called, and the account is
\* recorded as failed.
C20_MissingFieldFailsLogin ==
    /\ "email field missing" \in steps =>
          steps = {"email field missing"}
    /\ "password field missing" \in steps =>
          steps = {"email typed", "email submit clicked",
                   "password field missing"}
    /\ steps \cap {"email field missing", "password field missing"} # {} =>
          /\ login_state = "Failed"
          /\ server_url = "None"
          /\ pc \in {"run_except", "run_finally", "run_returned", "append"}
          /\ pc \in {"run_finally", "run_returned"} => ~ret[1]
          /\ pc = "append" =>
                ~success /\ result.kind = "auto renew failed"

\* the password field was not found and the account is about to be
\* recorded as failed
C20_Witness ==
    /\ pc = "append"
    /\ "password field missing" \in steps
    /\ ~success

\* the browser is on a page of the Google identity provider
OnIdentityProvider(url) ==
    \/ url = <<"h", "t", "t", "p", "s", ":", "/", "/">> \o GOOGLE_ACCOUNTS
    \/ startswith(url, <<"h", "t", "t", "p", "s", ":", "/", "/">>
                          \o GOOGLE_ACCOUNTS \o <<"/">>)

\* the browser is still on the login page
OnLoginPage(url) == startswith(url, LOGIN_URL)

ErrorVisible == error_element.state = "visible"

\* C21: after a timeout of the wait for the home URL, a visible error
\* element fails the login with its text; else a URL on the identity
\* provider's domain fails it with the unsupported-auth message; else a URL
\* still on the login page fails it with the still-on-login-page message;
\* else login returns True.  login returns True only when the home URL was
\* reached or that last branch was taken.
C21_TimeoutPrecedence ==
    pc = "login_waited" =>
        /\ url_wait = "timeout" =>
              login_ret =
                 IF ErrorVisible
                 THEN LoginRaises(<<"login failed", error_element.text>>)
                 ELSE IF OnIdentityProvider(current_url)
                      THEN LoginRaises(
                              <<"Google OAuth login is not supported">>)
                      ELSE IF OnLoginPage(current_url)
                           THEN LoginRaises(
                                <<"login failed, still on the login page">>)
                           ELSE LoginReturns
        /\ login_ret.ok =>
              \/ url_wait = "reached" /\ startswith(current_url, HOME_URL)
              \/ /\ url_wait = "timeout"
                 /\ ~ErrorVisible
                 /\ ~OnIdentityProvider(current_url)
                 /\ ~OnLoginPage(current_url)

\* the strategies before the k-th all raise
EarlierRaise(k) == \A j \in 1..(k - 1) : click_raises[j]

\* C22: the click strategies are attempted in the order script click,
\* native click, form submission, one only after all the earlier ones
\* raised; the step succeeds at the first that does not raise and fails
\* exactly when all three raised.  The wait for the enabled button is
\* bounded, and the click is attempted after it also when the button is
\* still disabled.
C22_ClickEscalation ==
    /\ elapsed <= max_wait_for_enable
    /\ pc = "click_wait" => clicks = <<>>
    /\ clicks = SubSeq(ClickStrategies, 1, Len(clicks))
    /\ \A k \in 1..Len(clicks) : EarlierRaise(k)
    /\ pc = "click_done" =>
          /\ click_success
          /\ clicks # <<>>
          /\ ~click_raises[Len(clicks)]
    /\ (pc = "click_raised" /\ enabled_after # STALE) =>
          /\ ~click_success
          /\ clicks = ClickStrategies
          /\ \A k \in 1..Len(ClickStrategies) : click_raises[k]
    /\ (pc \in {"click_done", "click_raised"} /\ enabled_after # STALE) =>
          /\ clicks # <<>>
          /\ (\A k \in 1..Len(ClickStrategies) : click_raises[k])
                <=> pc = "click_raised"
          /\ elapsed = IF enabled_after < max_wait_for_enable
                       THEN enabled_after ELSE max_wait_for_enable

\* the button never became enabled, the first two strategies raised and
\* the form submission went through
C22_Witness ==
    /\ pc = "click_done"
    /\ enabled_after = NEVER_ENABLED
    /\ elapsed = max_wait_for_enable
    /\ clicks = ClickStrategies
    /\ click_raises = <<TRUE, TRUE, FALSE>>

\* on the ad page: at most max_attempts passes and at most one click
GateBounded ==
    pc = "ad_gate" =>
        /\ focus = "secondary"
        /\ attempt <= max_attempts
        /\ ad_clicks <= 1
        /\ continue_clicked <=> ad_clicks = 1

\* a step taken on the ad page is a further pass, made only while nothing
\* was clicked and never raising, or it is the settle wait, the close of
\* the tab and the switch back to the primary tab on the way to the reload
GateStep ==
    pc = "ad_gate" =>
        IF pc' = "ad_gate"
        THEN /\ ~continue_clicked
             /\ attempt' = attempt + 1
             /\ raised' = raised
             /\ tabs' = tabs
        ELSE /\ continue_clicked \/ attempt = max_attempts
             /\ tabs' = tabs - 1
             /\ pc' = "reload" => focus' = "primary"

\* C23: in an iteration that switched to a secondary tab the ad-gate
\* dismissal makes at most 3 attempts and at most one click, none after a
\* click; clicked or not, and also after an attempt that raised, the
\* iteration waits, closes the tab, returns to the primary tab and goes on
\* with the loop, and no attempt fails the account.
C23_AdGateNeverFatal == []GateBounded /\ [][GateStep]_vars

InLoop == pc \in {"search", "open", "ad_gate", "reload"}

\* every link is opened once: what is still offered and what was opened
\* add up to what the first page offered, and the count follows
ConsumingLoop ==
    /\ InLoop =>
          /\ avail >= 0
          /\ offered <= MaxActions
          /\ pc \in {"search", "open"} =>
                /\ avail + iterations = offered
                /\ renewed_count = iterations
          /\ pc \in {"ad_gate", "reload"} =>
                /\ avail + iterations = offered + 1
                /\ renewed_count + 1 = iterations
    /\ pc = "reconcile" =>
          /\ avail = 0
          /\ iterations = offered
          /\ renewed_count = iterations

\* the loop is left for the reconciliation exactly by a search that finds
\* nothing
ExitAtEmptySearch ==
    /\ (pc = "search" /\ avail = 0) => pc' = "reconcile"
    /\ (pc # "reconcile" /\ pc' = "reconcile") => (pc = "search" /\ avail = 0)

\* C24: with finitely many links offered and every used link gone after
\* the reload, the renewal loop terminates: it ends at the first search
\* that finds no link, each link having been opened once, and the
\* reconciliation follows with a count equal to the iterations made.
C24_LoopTerminates ==
    /\ [](remote = "consumes" => ConsumingLoop)
    /\ [][remote = "consumes" => ExitAtEmptySearch]_vars
    /\ (remote = "consumes" /\ InLoop) ~> (pc \in {"reconcile", "run_except"})

C24_Witness ==
    /\ remote = "consumes"
    /\ pc = "reconcile"
    /\ offered = MaxActions
    /\ renewed_count = MaxActions
    /\ ~raised

\* the link is offered again after every reload
StickyLoop ==
    /\ InLoop => avail = offered
    /\ offered > 0 =>
          /\ pc # "reconcile"
          /\ "reconciled" \notin steps
          /\ "renew_server returned" \notin steps

\* every search opens a link again and every reload adds to the count
StickyStep ==
    /\ (pc = "search" /\ offered > 0) => pc' \in {"open", "run_except"}
    /\ (pc = "reload" /\ pc' = "search") =>
          (renewed_count' = renewed_count + 1 /\ avail' = avail)

\* C25: the loop has no iteration cap and no record of the links it has
\* used; when the remote site leaves a link visible after every reload the
\* loop opens it again in every iteration and never comes to the
\* reconciliation: the account leaves renew_server by an exception only.
C25_StickyLinkLoopsForever ==
    /\ [](remote = "keeps" => StickyLoop)
    /\ [][remote = "keeps" => StickyStep]_vars

\* more iterations made than links were offered
C25_Witness ==
    /\ remote = "keeps"
    /\ pc = "open"
    /\ offered = 1
    /\ renewed_count = MaxIterations
    /\ iterations = MaxIterations

\* C26: the accounts are processed one after another, and the fixed delay
\* is inserted between the end of one account's processing and the start
\* of the next, whatever the outcome of the earlier account (success,
\* failed run, fault during construction); no delay follows the last one.
C26_DelayBetweenAccounts ==
    /\ (pc = "loop" /\ i <= Len(accounts)) => delays = i - 1
    /\ (pc \in {"notify", "done"} /\ accounts # <<>>) =>
          delays = Len(accounts) - 1

\* C27: diagnostic capture never affects control flow: an account's
\* outcome and the steps taken are the same with diagnostics disabled,
\* with every capture succeeding and with any capture, the preparation of
\* the diagnostic storage included, faulting.  No exception in flight and
\* no recorded outcome therefore ever comes from a fault of the
\* diagnostics.
C27_DiagnosticsNeverAffectFlow ==
    /\ exc # STORAGE_FAULT
    /\ \A k \in 1..Len(results) : results[k].result.cause # STORAGE_FAULT

NO_INITIAL_EXPIRY == "cannot extract the initial expiry"

\* C28: when the initial snapshot taken on entering renew_server is
\* unparsed, renew_server raises before any renewal link is searched for
\* or opened: no secondary tab is opened and the account's outcome is a
\* failure; every reconciliation thus compares with a parsed initial
\* value (>= 0).
C28_UnparsedInitialFailsEarly ==
    /\ (InLoop \/ pc = "reconcile" \/ "reconciled" \in steps) =>
          initial_expiry_value >= 0
    /\ ("renew_server" \in steps /\ initial_expiry_value = UNPARSED) =>
          /\ raised
          /\ pc \in {"run_except", "run_finally", "run_returned", "append"}
          /\ iterations = 0
          /\ renewed_count = 0
          /\ tabs = 0
          /\ pc \in {"run_finally", "run_returned"} => ~ret[1]
          /\ pc = "append" => ~success
    /\ exc = NO_INITIAL_EXPIRY => initial_expiry_value = UNPARSED
    /\ \A k \in 1..Len(results) :
          results[k].result.cause = NO_INITIAL_EXPIRY => ~results[k].success

C28_Witness ==
    /\ pc = "append"
    /\ initial_expiry_value = UNPARSED
    /\ result = Msg("auto renew failed", NO_INITIAL_EXPIRY, <<>>, <<>>)
    /\ ~success
    /\ "login" \in steps

\* the categories of the summary an outcome was counted in
CountedIn(r) ==
    (IF IsRenewed(r) THEN {"renewed"} ELSE {})
    \cup (IF IsAlreadyDone(r) THEN {"already done"} ELSE {})
    \cup (IF IsFailure(r) THEN {"failed"} ELSE {})

\* C29: in the summary every outcome is counted in exactly one of the
\* categories renewed, already done and failed, so the three counts add up
\* to the number of accounts, and the status mark of each account's line
\* is that of the category the account was counted in.
C29_CountsPartitionOutcomes ==
    summary.sent =>
        /\ summary.success_count + summary.already_done_count
              + summary.failure_count = summary.total_count
        /\ \A k \in 1..Len(summary.lines) :
              CountedIn(AsText(results)[k]) = {summary.lines[k].status}

====
